---- MODULE Spec2Model ----
(***************************************************************************)
(* The dynamic value representation of the OpenSCAD expression language:   *)
(* RangeType and its iterator, Value::VectorPtr and its shared backing     *)
(* store, FunctionType, and the comparison and chr visitors of Value.      *)
(*                                                                         *)
(* A double is modelled as a record: a finite value (an integer, which a   *)
(* double holds exactly and on which +, - and * are exact), an infinity    *)
(* with its sign, or NaN.  uint32_t is modelled at UintBits bits, because  *)
(* the model checker's integers are 32 bit signed.                         *)
(***************************************************************************)
EXTENDS Integers, Sequences, FiniteSets, TLC

VARIABLES
  rng1,      \* a RangeType (begin_val, step_val, end_val)
  rng2,      \* a second RangeType
  ita,       \* a RangeType::iterator
  itb,       \* a second RangeType::iterator
  ub_cast,   \* what this build does on an out-of-range double -> uint32_t cast
  out,       \* the value returned by the last call
  va,        \* a Value, the left operand of a comparison
  vb,        \* a Value, the right operand of a comparison
  pc,        \* the position of chr_visitor::operator()(const RangePtr&)
  stream,    \* the bytes written to the ostringstream of chr_visitor
  warnings,  \* the number of warnings given to PRINTB
  store,     \* the Value::VectorType objects the shared_ptrs point to
  ptr,       \* Value::VectorPtr::ptr of each VectorPtr handle
  cloned,    \* the pairs of handles of which one was made by clone() of the other
  lastop,    \* the last operation on a VectorPtr and the handles it went through
  vobj,      \* the VectorObjects the shared_ptrs of VectorType point to
  vh,        \* VectorType::ptr of each VectorType handle
  logical,   \* the elements appended through each handle, in order
  rel        \* the calls of VectorObjectDeleter in progress

vars == <<rng1, rng2, ita, itb, ub_cast, out, va, vb, pc, stream, warnings,
          store, ptr, cloned, lastop, vobj, vh, logical, rel>>

cmpVars == <<va, vb>>
chrVars == <<pc, stream, warnings>>
vecVars == <<store, ptr, cloned, lastop>>
embVars == <<vobj, vh, logical, rel>>

-----------------------------------------------------------------------------
(* Bounds of the model *)

UintBits == 16     \* width at which uint32_t is modelled
MaxNum == 2        \* finite range fields are drawn from -MaxNum..MaxNum
MaxIncr == 3       \* an iterator is advanced at most to this step index
MaxVecLen == 2     \* longest vector among the operands of a comparison
MaxStores == 3     \* number of VectorType objects that can be allocated
MaxLen == 2        \* longest VectorType the VectorPtr operations build
MaxDim == 2        \* most rows and most columns of an operand of arithmetic
MaxObjs == 3       \* number of VectorObjects that can be allocated
MaxElems == 3      \* most elements of a VectorType with embedded vectors

-----------------------------------------------------------------------------
(* double *)

Fin(n) == [k |-> "fin", n |-> n]
NaN == [k |-> "nan", n |-> 0]
\* the finite value n + 1/2, the only values of the model that are not whole
Frac(n) == [k |-> "frac", n |-> n]
PInf == [k |-> "inf", n |-> 1]
NInf == [k |-> "inf", n |-> -1]
Zero == Fin(0)

isnan(d) == d.k = "nan"
isinf(d) == d.k = "inf"
isfinite(d) == d.k \in {"fin", "frac"}

Sign(n) == IF n > 0 THEN 1 ELSE IF n < 0 THEN -1 ELSE 0
Abs(n) == IF n < 0 THEN -n ELSE n

\* IEEE comparison: every comparison with NaN is false
DLt(a, b) ==
  IF isnan(a) \/ isnan(b) THEN FALSE
  ELSE IF isinf(a) THEN (a.n < 0 /\ ~(isinf(b) /\ b.n < 0))
  ELSE IF isinf(b) THEN b.n > 0
  ELSE a.n < b.n

DEq(a, b) == ~isnan(a) /\ ~isnan(b) /\ a = b
DGt(a, b) == DLt(b, a)
DLe(a, b) == DLt(a, b) \/ DEq(a, b)
DGe(a, b) == DLt(b, a) \/ DEq(a, b)

DAdd(a, b) ==
  IF isnan(a) \/ isnan(b) THEN NaN
  ELSE IF isinf(a) /\ isinf(b) THEN (IF a.n = b.n THEN a ELSE NaN)
  ELSE IF isinf(a) THEN a
  ELSE IF isinf(b) THEN b
  ELSE Fin(a.n + b.n)

DMul(a, b) ==
  IF isnan(a) \/ isnan(b) THEN NaN
  ELSE IF isinf(a) \/ isinf(b)
       THEN (IF Sign(a.n) * Sign(b.n) = 0 THEN NaN
             ELSE [k |-> "inf", n |-> Sign(a.n) * Sign(b.n)])
  ELSE Fin(a.n * b.n)

-----------------------------------------------------------------------------
(* uint32_t *)

UINT32_MAX == 2 ^ UintBits - 1

CastModes == {"wrap", "saturate"}

\* double -> uint32_t of a non-negative whole number t.  Out of range the
\* conversion is undefined: the build keeps the low bits (x86-64) or
\* saturates (AArch64).
cast_uint32(t) ==
  IF t <= UINT32_MAX THEN t
  ELSE IF ub_cast = "wrap" THEN t % (UINT32_MAX + 1)
  ELSE UINT32_MAX

-----------------------------------------------------------------------------
(* RangeType *)

Range(b, s, e) == [begin_val |-> b, step_val |-> s, end_val |-> e]

\* trunc(nextafter((end_val - begin_val) / step_val, max)) for finite fields,
\* step_val # 0 and a quotient >= 0.  nextafter moves the quotient one
\* representable double towards max: up below max (which never reaches the
\* next whole number, the fields being whole), down above max (which turns a
\* whole quotient q into q - 1 after truncation).
nextafter_trunc(r) ==
  LET a == Abs(r.end_val.n - r.begin_val.n)
      b == Abs(r.step_val.n)
  IN  IF a \div b > UINT32_MAX /\ a % b = 0 THEN (a \div b) - 1 ELSE a \div b

numValues_stepZeroFirst(r) ==
  IF isnan(r.begin_val) \/ isnan(r.end_val) \/ isnan(r.step_val) THEN 0
  ELSE IF DEq(r.step_val, Zero) THEN UINT32_MAX
  ELSE IF DLt(r.step_val, Zero) /\ DLt(r.begin_val, r.end_val) THEN 0
  ELSE IF ~DLt(r.step_val, Zero) /\ DGt(r.begin_val, r.end_val) THEN 0
  ELSE IF DEq(r.begin_val, r.end_val) \/ isinf(r.step_val) THEN 1
  ELSE IF isinf(r.begin_val) \/ isinf(r.end_val) THEN UINT32_MAX
  ELSE LET num_steps == cast_uint32(nextafter_trunc(r))
       IN  IF num_steps = UINT32_MAX THEN UINT32_MAX ELSE num_steps + 1

numValues(r) ==
  IF isnan(r.begin_val) \/ isnan(r.end_val) \/ isnan(r.step_val) THEN 0
  ELSE IF DLt(r.step_val, Zero) /\ DLt(r.begin_val, r.end_val) THEN 0
  ELSE IF ~DLt(r.step_val, Zero) /\ DGt(r.begin_val, r.end_val) THEN 0
  ELSE IF DEq(r.begin_val, r.end_val) \/ isinf(r.step_val) THEN 1
  ELSE IF isinf(r.begin_val) \/ isinf(r.end_val) \/ DEq(r.step_val, Zero)
       THEN UINT32_MAX
  ELSE LET num_steps == cast_uint32(nextafter_trunc(r))
       IN  IF num_steps = UINT32_MAX THEN UINT32_MAX ELSE num_steps + 1

\* RangeType::operator==; "this == &other" is the identity of the two objects
RangeEq_withEnd(r, o, same) ==
  LET n1 == numValues(r)
      n2 == numValues(o)
  IN  IF n1 = 0 THEN n2 = 0
      ELSE IF n2 = 0 THEN FALSE
      ELSE same \/ (DEq(r.begin_val, o.begin_val) /\ DEq(r.step_val, o.step_val)
                    /\ DEq(r.end_val, o.end_val) /\ n1 = n2)

RangeEq(r, o, same) ==
  LET n1 == numValues(r)
      n2 == numValues(o)
  IN  IF n1 = 0 THEN n2 = 0
      ELSE IF n2 = 0 THEN FALSE
      ELSE same \/ (DEq(r.begin_val, o.begin_val) /\ DEq(r.step_val, o.step_val)
                    /\ n1 = n2)

-----------------------------------------------------------------------------
(* RangeType::iterator *)

RANGE_TYPE_BEGIN == "RANGE_TYPE_BEGIN"
RANGE_TYPE_RUNNING == "RANGE_TYPE_RUNNING"
RANGE_TYPE_END == "RANGE_TYPE_END"

\* the RangeType an iterator refers to ("const RangeType &range")
RangeOf(idx) == IF idx = 1 THEN rng1 ELSE rng2

\* an iterator variable that has not been constructed
NoIter == [rng |-> 0, val |-> Zero, type |-> RANGE_TYPE_END,
           num_values |-> 0, i_step |-> 0]

update_type_strict(it) ==
  LET r == RangeOf(it.rng)
  IN  IF isnan(r.begin_val) \/ isnan(r.end_val) \/ isnan(r.step_val)
      THEN [it EXCEPT !.type = RANGE_TYPE_END, !.i_step = it.num_values]
      ELSE IF DEq(r.step_val, Zero) THEN [it EXCEPT !.type = RANGE_TYPE_END]
      ELSE IF it.i_step > it.num_values
           THEN [it EXCEPT !.type = RANGE_TYPE_END]
      ELSE it

update_type(it) ==
  LET r == RangeOf(it.rng)
      t == IF DEq(r.step_val, Zero) THEN RANGE_TYPE_END
           ELSE IF DLt(r.step_val, Zero)
                THEN (IF it.i_step >= it.num_values THEN RANGE_TYPE_END
                      ELSE it.type)
           ELSE (IF it.i_step >= it.num_values THEN RANGE_TYPE_END
                 ELSE it.type)
  IN  IF isnan(r.begin_val) \/ isnan(r.end_val) \/ isnan(r.step_val)
      THEN [it EXCEPT !.type = RANGE_TYPE_END, !.i_step = it.num_values]
      ELSE [it EXCEPT !.type = t]

\* iterator::iterator(range, type)
iterator(idx, type) ==
  LET r == RangeOf(idx)
      nv == numValues(r)
  IN  update_type([rng |-> idx, val |-> r.begin_val, type |-> type,
                   num_values |-> nv,
                   i_step |-> IF type = RANGE_TYPE_END THEN nv ELSE 0])

begin(idx) == iterator(idx, RANGE_TYPE_BEGIN)
end(idx) == iterator(idx, RANGE_TYPE_END)

incr_postIncrement(it) ==
  LET r == RangeOf(it.rng)
      i == (it.i_step + 1) % (UINT32_MAX + 1)
  IN  update_type([it EXCEPT
                     !.val = DAdd(r.begin_val, DMul(r.step_val, Fin(it.i_step))),
                     !.i_step = i])

\* iterator::operator++
incr(it) ==
  LET r == RangeOf(it.rng)
      i == (it.i_step + 1) % (UINT32_MAX + 1)
  IN  update_type([it EXCEPT
                     !.val = DAdd(r.begin_val, DMul(r.step_val, Fin(i))),
                     !.i_step = i])

\* iterator::operator==
IterEq(a, b) ==
  IF a.type = RANGE_TYPE_RUNNING
  THEN a.type = b.type /\ DEq(a.val, b.val)
       /\ RangeEq(RangeOf(a.rng), RangeOf(b.rng), a.rng = b.rng)
  ELSE a.type = b.type
       /\ RangeEq(RangeOf(a.rng), RangeOf(b.rng), a.rng = b.rng)

-----------------------------------------------------------------------------
(* RangeType ordering operators *)

RangeLt(r, o) ==
  LET n1 == numValues(r)
      n2 == numValues(o)
  IN  IF n1 = 0 THEN 0 < n2
      ELSE IF n2 = 0 THEN FALSE
      ELSE \/ DLt(r.begin_val, o.begin_val)
           \/ /\ DEq(r.begin_val, o.begin_val)
              /\ \/ DLt(r.step_val, o.step_val)
                 \/ DEq(r.step_val, o.step_val) /\ n1 < n2

RangeLe(r, o) ==
  LET n1 == numValues(r)
      n2 == numValues(o)
  IN  IF n1 = 0 THEN TRUE
      ELSE IF n2 = 0 THEN FALSE
      ELSE \/ DLt(r.begin_val, o.begin_val)
           \/ /\ DEq(r.begin_val, o.begin_val)
              /\ \/ DLt(r.step_val, o.step_val)
                 \/ DEq(r.step_val, o.step_val) /\ n1 <= n2

RangeGt(r, o) ==
  LET n1 == numValues(r)
      n2 == numValues(o)
  IN  IF n2 = 0 THEN n1 > 0
      ELSE IF n1 = 0 THEN FALSE
      ELSE \/ DGt(r.begin_val, o.begin_val)
           \/ /\ DEq(r.begin_val, o.begin_val)
              /\ \/ DGt(r.step_val, o.step_val)
                 \/ DEq(r.step_val, o.step_val) /\ n1 > n2

RangeGe(r, o) ==
  LET n1 == numValues(r)
      n2 == numValues(o)
  IN  IF n2 = 0 THEN TRUE
      ELSE IF n1 = 0 THEN FALSE
      ELSE \/ DGt(r.begin_val, o.begin_val)
           \/ /\ DEq(r.begin_val, o.begin_val)
              /\ \/ DGt(r.step_val, o.step_val)
                 \/ DEq(r.step_val, o.step_val) /\ n1 >= n2

-----------------------------------------------------------------------------
(* Value: the variant over blank, bool, double, str_utf8_wrapper,          *)
(* VectorPtr, RangePtr and FunctionPtr.  Every Value is a record of the    *)
(* same shape; t is the active variant and only its field is meaningful.   *)
(* A string is the sequence of its bytes (0..255).  id is the identity of  *)
(* the object a RangePtr or FunctionPtr points to: clone() keeps it.       *)

NoRange == Range(Zero, Zero, Zero)

MkValue(t, b, d, s, e, r, id) ==
  [t |-> t, b |-> b, d |-> d, s |-> s, e |-> e, r |-> r, id |-> id]

Undef == MkValue("UNDEFINED", FALSE, Zero, <<>>, <<>>, NoRange, 0)
Bool(b) == MkValue("BOOL", b, Zero, <<>>, <<>>, NoRange, 0)
Num(d) == MkValue("NUMBER", FALSE, d, <<>>, <<>>, NoRange, 0)
Str(s) == MkValue("STRING", FALSE, Zero, s, <<>>, NoRange, 0)
Vec(e) == MkValue("VECTOR", FALSE, Zero, <<>>, e, NoRange, 0)
Rng(r, id) == MkValue("RANGE", FALSE, Zero, <<>>, <<>>, r, id)
Fun(id) == MkValue("FUNCTION", FALSE, Zero, <<>>, <<>>, NoRange, id)

\* bool -> double, the usual arithmetic conversion of "op1 == op2"
BoolToDouble(b) == IF b THEN Fin(1) ELSE Zero

CmpOps == {"==", "<", "<=", ">", ">="}
OrderOps == {"<", "<=", ">", ">="}

\* a comparison of two doubles
DCmp(op, a, b) ==
  CASE op = "==" -> DEq(a, b)
    [] op = "<" -> DLt(a, b)
    [] op = "<=" -> DLe(a, b)
    [] op = ">" -> DGt(a, b)
    [] OTHER -> DGe(a, b)

\* boost::blank compared with boost::blank
BlankCmp(op) == op \in {"==", "<=", ">="}

\* std::string compared with std::string: the bytes as unsigned chars, then
\* the lengths
RECURSIVE StrCompare(_, _, _)
StrCompare(x, y, i) ==
  IF i > Len(x) \/ i > Len(y)
  THEN (IF Len(x) < Len(y) THEN -1 ELSE IF Len(x) > Len(y) THEN 1 ELSE 0)
  ELSE IF x[i] < y[i] THEN -1
  ELSE IF x[i] > y[i] THEN 1
  ELSE StrCompare(x, y, i + 1)

StrCmp_lengthFirst(op, x, y) ==
  LET c == IF Len(x) # Len(y) THEN (IF Len(x) < Len(y) THEN -1 ELSE 1)
           ELSE StrCompare(x, y, 1)
  IN  CASE op = "==" -> x = y
        [] op = "<" -> c < 0
        [] op = "<=" -> c <= 0
        [] op = ">" -> c > 0
        [] OTHER -> c >= 0

StrCmp(op, x, y) ==
  LET c == StrCompare(x, y, 1)
  IN  CASE op = "==" -> x = y
        [] op = "<" -> c < 0
        [] op = "<=" -> c <= 0
        [] op = ">" -> c > 0
        [] OTHER -> c >= 0

\* RangeType compared with RangeType; same: the two are one object
RangeCmp(op, r, o, same) ==
  CASE op = "==" -> RangeEq(r, o, same)
    [] op = "<" -> RangeLt(r, o)
    [] op = "<=" -> RangeLe(r, o)
    [] op = ">" -> RangeGt(r, o)
    [] OTHER -> RangeGe(r, o)

\* FunctionType compared with FunctionType
FunctionCmp_byIdentity(op, f, g) == op \in {"==", "<=", ">="} /\ f = g

FunctionCmp(op, f, g) == FALSE

\* the visitors' overloads for (bool, double) and (double, bool)
CmpBoolDouble_none(op, a, b) == FALSE

CmpBoolDouble(op, a, b) == DCmp(op, a, b)

RECURSIVE ValueCmp(_, _, _)
RECURSIVE VectorEq(_, _, _)
RECURSIVE lexicographical_compare(_, _, _)

\* std::vector<Value> == std::vector<Value>
VectorEq(x, y, i) ==
  IF Len(x) # Len(y) THEN FALSE
  ELSE IF i > Len(x) THEN TRUE
  ELSE ValueCmp("==", x[i], y[i]) /\ VectorEq(x, y, i + 1)

\* std::lexicographical_compare over two std::vector<Value>, with
\* Value::operator<
lexicographical_compare(x, y, i) ==
  IF i > Len(x) \/ i > Len(y) THEN i > Len(x) /\ i <= Len(y)
  ELSE IF ValueCmp("<", x[i], y[i]) THEN TRUE
  ELSE IF ValueCmp("<", y[i], x[i]) THEN FALSE
  ELSE lexicographical_compare(x, y, i + 1)

\* std::vector<Value> compared with std::vector<Value>
VectorCmp_sizeFirst(op, x, y) ==
  LET lt(p, q) == Len(p) < Len(q)
                  \/ (Len(p) = Len(q) /\ lexicographical_compare(p, q, 1))
  IN  CASE op = "==" -> VectorEq(x, y, 1)
        [] op = "<" -> lt(x, y)
        [] op = "<=" -> ~lt(y, x)
        [] op = ">" -> lt(y, x)
        [] OTHER -> ~lt(x, y)

VectorCmp(op, x, y) ==
  CASE op = "==" -> VectorEq(x, y, 1)
    [] op = "<" -> lexicographical_compare(x, y, 1)
    [] op = "<=" -> ~lexicographical_compare(y, x, 1)
    [] op = ">" -> lexicographical_compare(y, x, 1)
    [] OTHER -> ~lexicographical_compare(x, y, 1)

\* equals_visitor, less_visitor, greater_visitor, lessequal_visitor and
\* greaterequal_visitor applied to two Values
ValueCmp(op, a, b) ==
  IF a.t = b.t
  THEN CASE a.t = "UNDEFINED" -> BlankCmp(op)
         [] a.t = "BOOL" -> DCmp(op, BoolToDouble(a.b), BoolToDouble(b.b))
         [] a.t = "NUMBER" -> DCmp(op, a.d, b.d)
         [] a.t = "STRING" -> StrCmp(op, a.s, b.s)
         [] a.t = "VECTOR" -> VectorCmp(op, a.e, b.e)
         [] a.t = "RANGE" -> RangeCmp(op, a.r, b.r, a.id = b.id)
         [] OTHER -> FunctionCmp(op, a.id, b.id)
  ELSE IF a.t = "BOOL" /\ b.t = "NUMBER"
       THEN CmpBoolDouble(op, BoolToDouble(a.b), b.d)
  ELSE IF a.t = "NUMBER" /\ b.t = "BOOL"
       THEN CmpBoolDouble(op, a.d, BoolToDouble(b.b))
  ELSE FALSE

-----------------------------------------------------------------------------
(* The value returned by the last call *)

NoOut == [op |-> "none", b |-> FALSE, n |-> 0]
OutBool(op, b) == [op |-> op, b |-> b, n |-> 0]
OutNum(op, n) == [op |-> op, b |-> FALSE, n |-> n]

-----------------------------------------------------------------------------
(* The parts of the state a specification does not use stay as constructed *)

Handles == {"v", "w", "x"}
StoreIds == 1..MaxStores
NullId == -1       \* a null shared_ptr

NoOp == [op |-> "none", recv |-> "none", arg |-> "none"]

RangeIdle ==
  /\ rng1 = NoRange
  /\ rng2 = NoRange
  /\ ita = NoIter
  /\ itb = NoIter
CmpIdle == va = Undef /\ vb = Undef
ChrIdle == pc = "idle" /\ stream = <<>> /\ warnings = 0
VecIdle ==
  /\ store = [s \in StoreIds |-> [alloc |-> FALSE, vec |-> <<>>]]
  /\ ptr = [h \in Handles |-> 0]
  /\ cloned = {}
  /\ lastop = NoOp

SeqHandles == {"a", "b"}
ObjIds == 1..MaxObjs
NoObj == [alloc |-> FALSE, vec |-> <<>>, embed_excess |-> 0]
NoRel == [stack |-> <<>>, peak |-> 0, root |-> 0, tree |-> {}]

EmbIdle ==
  /\ vobj = [o \in ObjIds |-> NoObj]
  /\ vh = [h \in SeqHandles |-> 0]
  /\ logical = [h \in SeqHandles |-> <<>>]
  /\ rel = NoRel

-----------------------------------------------------------------------------
(* Calls on RangeType: numValues() and operator== on ranges drawn from     *)
(* bounded sets of doubles.                                                *)

Specials == {NaN, NInf, PInf}
RangeDoubles ==
  Specials \cup {Fin(n) : n \in -MaxNum..MaxNum}
           \cup {Fin(5), Fin(UINT32_MAX), Fin(UINT32_MAX + 1),
                 Fin(UINT32_MAX + 2)}
OtherDoubles == {NaN, Fin(0), Fin(2)}

RangesOver(D) == {Range(b, s, e) : b \in D, s \in D, e \in D}

InitRange ==
  /\ rng1 \in RangesOver(RangeDoubles)
  /\ rng2 \in RangesOver(OtherDoubles)
  /\ ita = NoIter
  /\ itb = NoIter
  /\ ub_cast \in CastModes
  /\ out = NoOut
  /\ CmpIdle
  /\ ChrIdle
  /\ VecIdle
  /\ EmbIdle

CallNumValues ==
  /\ out' = OutNum("numValues", numValues(rng1))
  /\ UNCHANGED <<rng1, rng2, ita, itb, ub_cast, cmpVars, chrVars, vecVars, embVars>>

CallRangeEq ==
  /\ out' = OutBool("range==", RangeEq(rng1, rng2, FALSE))
  /\ UNCHANGED <<rng1, rng2, ita, itb, ub_cast, cmpVars, chrVars, vecVars, embVars>>

CallRangeEqSelf ==
  /\ out' = OutBool("range==self", RangeEq(rng1, rng1, TRUE))
  /\ UNCHANGED <<rng1, rng2, ita, itb, ub_cast, cmpVars, chrVars, vecVars, embVars>>

NextRange == CallNumValues \/ CallRangeEq \/ CallRangeEqSelf

SpecRange == InitRange /\ [][NextRange]_vars

-----------------------------------------------------------------------------
(* Iterators over rng1 and rng2 *)

IterDoubles == {NaN, PInf, Fin(-1), Fin(0), Fin(1), Fin(2)}
IterRanges2 == {Range(Fin(0), Fin(1), Fin(2)), Range(Fin(0), Fin(1), Fin(1))}

InitIter ==
  /\ rng1 \in RangesOver(IterDoubles)
  /\ rng2 \in IterRanges2
  /\ ita = NoIter
  /\ itb = NoIter
  /\ ub_cast \in CastModes
  /\ out = NoOut
  /\ CmpIdle
  /\ ChrIdle
  /\ VecIdle
  /\ EmbIdle

BeginA(idx) ==
  /\ ita.rng = 0
  /\ ita' = begin(idx)
  /\ UNCHANGED <<rng1, rng2, itb, ub_cast, cmpVars, chrVars, vecVars, embVars>>
  /\ out' = NoOut

BeginB(idx) ==
  /\ itb.rng = 0
  /\ itb' = begin(idx)
  /\ UNCHANGED <<rng1, rng2, ita, ub_cast, cmpVars, chrVars, vecVars, embVars>>
  /\ out' = NoOut

EndB(idx) ==
  /\ itb.rng = 0
  /\ itb' = end(idx)
  /\ UNCHANGED <<rng1, rng2, ita, ub_cast, cmpVars, chrVars, vecVars, embVars>>
  /\ out' = NoOut

IncrA ==
  /\ ita.rng # 0
  /\ ita.i_step < MaxIncr
  /\ ita' = incr(ita)
  /\ UNCHANGED <<rng1, rng2, itb, ub_cast, cmpVars, chrVars, vecVars, embVars>>
  /\ out' = NoOut

IncrB ==
  /\ itb.rng # 0
  /\ itb.i_step < MaxIncr
  /\ itb' = incr(itb)
  /\ UNCHANGED <<rng1, rng2, ita, ub_cast, cmpVars, chrVars, vecVars, embVars>>
  /\ out' = NoOut

CompareIters ==
  /\ ita.rng # 0
  /\ itb.rng # 0
  /\ out' = OutBool("it==", IterEq(ita, itb))
  /\ UNCHANGED <<rng1, rng2, ita, itb, ub_cast, cmpVars, chrVars, vecVars, embVars>>

NextIter ==
  \/ \E idx \in {1, 2} : BeginA(idx)
  \/ \E idx \in {1, 2} : BeginB(idx)
  \/ \E idx \in {1, 2} : EndB(idx)
  \/ IncrA
  \/ IncrB
  \/ CompareIters

SpecIter == InitIter /\ [][NextIter]_vars

-----------------------------------------------------------------------------
(* Comparisons of two Values drawn from a bounded set *)

Bytes_a == <<97>>
Bytes_b == <<98>>
Bytes_ab == <<97, 98>>
Bytes_eacute == <<195, 169>>

ScalarValues ==
  {Undef, Bool(FALSE), Bool(TRUE)}
    \cup {Num(d) : d \in {NaN, PInf, Fin(0), Fin(1), Fin(2)}}
    \cup {Str(b) : b \in {<<>>, Bytes_a, Bytes_b, Bytes_ab, Bytes_eacute}}
    \cup {Rng(Range(Fin(0), Fin(1), Fin(2)), 1),
          Rng(Range(Fin(0), Fin(1), Fin(1)), 2),
          Rng(Range(NaN, Fin(1), Fin(1)), 3)}
    \cup {Fun(1), Fun(2)}

ElemValues ==
  {Bool(TRUE), Num(NaN), Num(Fin(0)), Str(Bytes_a), Vec(<<Num(Fin(0))>>)}

SeqsOver(S, n) == UNION {[1..m -> S] : m \in 0..n}

CmpValues == ScalarValues \cup {Vec(e) : e \in SeqsOver(ElemValues, MaxVecLen)}

InitCompare ==
  /\ va \in CmpValues
  /\ vb \in CmpValues
  /\ ub_cast \in CastModes
  /\ out = NoOut
  /\ RangeIdle
  /\ ChrIdle
  /\ VecIdle
  /\ EmbIdle

\* Value::operator==, <, <=, >, >=
Compare(op) ==
  /\ out' = OutBool(op, ValueCmp(op, va, vb))
  /\ UNCHANGED <<rng1, rng2, ita, itb, ub_cast, cmpVars, chrVars, vecVars, embVars>>

NextCompare == \E op \in CmpOps : Compare(op)

SpecCompare == InitCompare /\ [][NextCompare]_vars

-----------------------------------------------------------------------------
(* Value::VectorPtr: handles that share VectorType objects.  store[s].vec  *)
(* is the std::vector<Value> of object s; a Vector element of it refers to *)
(* the object its own VectorPtr points to by id (NullId once moved from).  *)

VecRef(sid) == MkValue("VECTOR", FALSE, Zero, <<>>, <<>>, NoRange, sid)

\* what Value(Value&&) leaves behind in its source: bool and double keep
\* their value, a str_utf8_wrapper, VectorPtr, RangePtr or FunctionPtr is
\* left with a null shared_ptr
Moved(v) ==
  IF v.t \in {"STRING", "VECTOR", "RANGE", "FUNCTION"}
  THEN [v EXCEPT !.id = NullId, !.s = <<>>]
  ELSE v

MovedAll(vec) == [i \in 1..Len(vec) |-> Moved(vec[i])]

FreeStores == {s \in StoreIds : ~store[s].alloc}
NewStore == CHOOSE s \in FreeStores : \A t \in FreeStores : s <= t

VecOf(h) == store[ptr[h]].vec

\* what is left in the object after elements were moved out of a vector into
\* itself, which invalidates the iterators of std::move
Garbage == MkValue("GARBAGE", FALSE, Zero, <<>>, <<>>, NoRange, 0)

\* VectorPtr(): make_shared<VectorType>()
NewVector(h) ==
  /\ ptr[h] = 0
  /\ FreeStores # {}
  /\ store' = [store EXCEPT ![NewStore] = [alloc |-> TRUE, vec |-> <<>>]]
  /\ ptr' = [ptr EXCEPT ![h] = NewStore]
  /\ lastop' = [op |-> "new", recv |-> h, arg |-> "none"]
  /\ UNCHANGED cloned

\* VectorPtr::clone(): the copy shares the object
Clone(h, g) ==
  /\ ptr[h] # 0
  /\ ptr[g] = 0
  /\ ptr' = [ptr EXCEPT ![g] = ptr[h]]
  /\ cloned' = cloned \cup {<<h, g>>, <<g, h>>}
  /\ lastop' = [op |-> "clone", recv |-> h, arg |-> g]
  /\ UNCHANGED store

\* (*h)->emplace_back(x), x a scalar Value
EmplaceBack(h, x) ==
  /\ ptr[h] # 0
  /\ Len(VecOf(h)) < MaxLen
  /\ store' = [store EXCEPT ![ptr[h]].vec = Append(@, x)]
  /\ lastop' = [op |-> "emplace_back", recv |-> h, arg |-> "none"]
  /\ UNCHANGED <<ptr, cloned>>

\* (*h)->emplace_back(Value(g.clone())): a Vector element sharing g's object
EmplaceBackVector(h, g) ==
  /\ ptr[h] # 0
  /\ ptr[g] # 0
  /\ ptr[g] # ptr[h]
  /\ Len(VecOf(h)) < MaxLen
  /\ store' = [store EXCEPT ![ptr[h]].vec = Append(@, VecRef(ptr[g]))]
  /\ lastop' = [op |-> "emplace_back", recv |-> h, arg |-> g]
  /\ UNCHANGED <<ptr, cloned>>

\* h.append_vector(Value(g.clone()))
append_vector(h, g) ==
  /\ ptr[h] # 0
  /\ ptr[g] # 0
  /\ h # g
  /\ Len(VecOf(h)) + Len(VecOf(g)) <= MaxLen
  /\ IF VecOf(h) = <<>>
     THEN /\ ptr' = [ptr EXCEPT ![h] = ptr[g]]
          /\ UNCHANGED store
     ELSE /\ UNCHANGED ptr
          /\ IF ptr[h] # ptr[g]
             THEN store' = [store EXCEPT ![ptr[h]].vec = @ \o VecOf(g),
                                         ![ptr[g]].vec = MovedAll(@)]
             ELSE \E undefined \in {"in place", "garbage"} :
                    store' = [store EXCEPT ![ptr[h]].vec =
                                IF undefined = "in place"
                                THEN MovedAll(@) \o @
                                ELSE [i \in 1..Len(@) |-> Garbage]]
  /\ lastop' = [op |-> "append_vector", recv |-> h, arg |-> g]
  /\ UNCHANGED cloned

\* the loop of VectorPtr::flatten over the elements of object s, from
\* element i on: st is the store as the loop has left it, ret the new vector
RECURSIVE flatten_loop(_, _, _, _)
flatten_loop(st, s, i, ret) ==
  IF i > Len(st[s].vec) THEN [st |-> st, ret |-> ret]
  ELSE LET v == st[s].vec[i]
       IN  IF v.t = "VECTOR"
           THEN flatten_loop([st EXCEPT ![v.id].vec = MovedAll(@)], s, i + 1,
                             ret \o st[v.id].vec)
           ELSE flatten_loop([st EXCEPT ![s].vec[i] = Moved(v)], s, i + 1,
                             Append(ret, v))

\* VectorPtr::flatten().  An element that is a Vector with a null pointer is
\* dereferenced by toVector(): the process ends there.
flatten(h) ==
  /\ ptr[h] # 0
  /\ FreeStores # {}
  /\ \A i \in 1..Len(VecOf(h)) :
       VecOf(h)[i].t = "VECTOR" => VecOf(h)[i].id # NullId
  /\ LET r == flatten_loop(store, ptr[h], 1, <<>>)
     IN  /\ store' = [r.st EXCEPT ![NewStore] = [alloc |-> TRUE, vec |-> r.ret]]
         /\ ptr' = [ptr EXCEPT ![h] = NewStore]
  /\ lastop' = [op |-> "flatten", recv |-> h, arg |-> "none"]
  /\ UNCHANGED cloned

\* the elements seen through a handle, Vector elements by their contents
RECURSIVE Deep(_, _)
Deep(v, d) ==
  IF v.t = "VECTOR" /\ v.id # NullId /\ d > 0
  THEN [v EXCEPT !.id = 0,
                 !.e = [i \in 1..Len(store[v.id].vec) |->
                          Deep(store[v.id].vec[i], d - 1)]]
  ELSE v

Obs(h) == IF ptr[h] = 0 THEN Undef ELSE Deep(VecRef(ptr[h]), MaxStores)

HeapScalars == {Str(Bytes_a)}

InitVector ==
  /\ VecIdle
  /\ EmbIdle
  /\ RangeIdle
  /\ CmpIdle
  /\ ChrIdle
  /\ ub_cast = "wrap"
  /\ out = NoOut

vecFrame == <<rng1, rng2, ita, itb, ub_cast, out, cmpVars, chrVars, embVars>>

NextVector ==
  \/ \E h \in Handles : NewVector(h) /\ UNCHANGED vecFrame
  \/ \E g \in Handles : Clone("v", g) /\ UNCHANGED vecFrame
  \/ \E h \in Handles, x \in HeapScalars :
       EmplaceBack(h, x) /\ UNCHANGED vecFrame
  \/ \E h \in Handles, g \in Handles :
       EmplaceBackVector(h, g) /\ UNCHANGED vecFrame
  \/ \E h \in Handles, g \in Handles :
       append_vector(h, g) /\ UNCHANGED vecFrame
  \/ \E h \in Handles : flatten(h) /\ UNCHANGED vecFrame

SpecVector == InitVector /\ [][NextVector]_vars

-----------------------------------------------------------------------------
(* chr_visitor: Value::chrString() of a Number and of a Range (rng1)       *)

MAX_RANGE_STEPS == 10000

\* g_unichar_validate(c): a code point below 0x110000 outside the surrogates
g_unichar_validate(c) == c < 1114112 /\ (c \div 2048) # 27

\* g_unichar_to_utf8(c, buf): the bytes of the UTF-8 encoding of c
g_unichar_to_utf8(c) ==
  IF c < 128 THEN <<c>>
  ELSE IF c < 2048 THEN <<192 + (c \div 64), 128 + (c % 64)>>
  ELSE IF c < 65536
       THEN <<224 + (c \div 4096), 128 + ((c \div 64) % 64), 128 + (c % 64)>>
  ELSE <<240 + (c \div 262144), 128 + ((c \div 4096) % 64),
         128 + ((c \div 64) % 64), 128 + (c % 64)>>

\* chr_visitor::operator()(const double &).  The conversion of an infinite v
\* to gunichar is undefined; the results a build gives (0 or 0xFFFFFFFF) are
\* both rejected by the test that follows it.
chr_double(v) ==
  IF ~DGt(v, Zero) \/ isinf(v) THEN <<>>
  ELSE LET c == cast_uint32(v.n)
       IN  IF g_unichar_validate(c) /\ c # 0 THEN g_unichar_to_utf8(c)
           ELSE <<>>

ChrBegins == {NaN, Fin(0), Fin(1), Fin(97), Fin(233)}
ChrSteps == {Fin(-1), Fin(0), Fin(1), Fin(2)}
ChrEnds == {Fin(0), Fin(1), Fin(99), Fin(234)}

\* ranges around the limit: MAX_RANGE_STEPS - 1, MAX_RANGE_STEPS and
\* MAX_RANGE_STEPS + 1 values
ChrLongRanges ==
  {Range(Fin(10 - MAX_RANGE_STEPS), Fin(1), Fin(8)),
   Range(Fin(1), Fin(1), Fin(MAX_RANGE_STEPS)),
   Range(Fin(0), Fin(1), Fin(MAX_RANGE_STEPS))}

ChrRanges ==
  {Range(b, s, e) : b \in ChrBegins, s \in ChrSteps, e \in ChrEnds}
    \cup ChrLongRanges

InitChr ==
  /\ rng1 \in ChrRanges
  /\ rng2 = NoRange
  /\ ita = NoIter
  /\ itb = NoIter
  /\ ub_cast \in CastModes
  /\ out = NoOut
  /\ ChrIdle
  /\ CmpIdle
  /\ VecIdle
  /\ EmbIdle

\* chr_visitor::operator()(const RangePtr &) up to the loop
ChrString ==
  /\ pc = "idle"
  /\ LET steps == numValues(rng1)
     IN  IF steps >= MAX_RANGE_STEPS
         THEN /\ warnings' = warnings + 1
              /\ pc' = "done"
              /\ UNCHANGED ita
         ELSE /\ ita' = begin(1)
              /\ pc' = "loop"
              /\ UNCHANGED warnings
  /\ stream' = <<>>
  /\ UNCHANGED <<rng1, rng2, itb, ub_cast, out, cmpVars, vecVars, embVars>>

\* one turn of "for (it = v->begin(); it != v->end(); it++)"
ChrLoop ==
  /\ pc = "loop"
  /\ IF ~IterEq(ita, end(1))
     THEN /\ stream' = stream \o chr_double(ita.val)
          /\ ita' = incr(ita)
          /\ UNCHANGED pc
     ELSE /\ pc' = "done"
          /\ UNCHANGED <<stream, ita>>
  /\ UNCHANGED <<rng1, rng2, itb, ub_cast, out, warnings, cmpVars, vecVars, embVars>>

NextChr == ChrString \/ ChrLoop

SpecChr == InitChr /\ [][NextChr]_vars

-----------------------------------------------------------------------------
(* bracket_visitor: Value::operator[]                                      *)

\* convert_to_uint32: boost::numeric_cast<uint32_t> truncates towards zero
\* and throws for d <= -1 and for d >= 2^32; the catch leaves max()
convert_to_uint32(d) ==
  IF ~isfinite(d) THEN UINT32_MAX
  ELSE IF d.n >= UINT32_MAX + 1 THEN UINT32_MAX
  ELSE IF d.k = "frac" THEN (IF d.n <= -2 THEN UINT32_MAX
                            ELSE IF d.n = -1 THEN 0 ELSE d.n)
  ELSE IF d.n <= -1 THEN UINT32_MAX
  ELSE d.n

\* *p for a pointer into the bytes of a std::string: position Len + 1 holds
\* the terminating 0
ByteAt(s, pos) == IF pos <= Len(s) THEN s[pos] ELSE 0

g_utf8_skip_bytewise(c) == 1

\* g_utf8_skip[c]: the length of the character a lead byte c announces
g_utf8_skip(c) ==
  IF c < 192 THEN 1
  ELSE IF c < 224 THEN 2
  ELSE IF c < 240 THEN 3
  ELSE IF c < 248 THEN 4
  ELSE IF c < 252 THEN 5
  ELSE IF c < 254 THEN 6
  ELSE 1

g_utf8_next_char(s, pos) == pos + g_utf8_skip(ByteAt(s, pos))

\* the loop of g_utf8_strlen(p, max): pos is p, start is position 1
RECURSIVE g_utf8_strlen_loop(_, _, _, _)
g_utf8_strlen_loop(s, max, pos, len) ==
  IF pos - 1 < max /\ ByteAt(s, pos) # 0
  THEN g_utf8_strlen_loop(s, max, g_utf8_next_char(s, pos), len + 1)
  ELSE IF pos - 1 <= max THEN len + 1 ELSE len

g_utf8_strlen(s, max) ==
  IF max = 0 \/ ByteAt(s, 1) = 0 THEN 0
  ELSE g_utf8_strlen_loop(s, max, g_utf8_next_char(s, 1), 0)

\* str_utf8_wrapper::get_utf8_strlen
get_utf8_strlen(s) == g_utf8_strlen(s, Len(s))

\* g_utf8_offset_to_pointer(str, offset), offset >= 0
RECURSIVE g_utf8_offset_to_pointer(_, _, _)
g_utf8_offset_to_pointer(s, pos, offset) ==
  IF offset = 0 THEN pos
  ELSE g_utf8_offset_to_pointer(s, g_utf8_next_char(s, pos), offset - 1)

\* g_utf8_strncpy(dest, src, 1): the bytes of one character from pos on
g_utf8_strncpy(s, pos) ==
  IF ByteAt(s, pos) = 0 THEN <<>>
  ELSE LET last == g_utf8_next_char(s, pos) - 1
       IN  SubSeq(s, pos, IF last <= Len(s) THEN last ELSE Len(s))

\* the result of a call with its operands
OutVal(op, x, y, v) ==
  [op |-> op, b |-> FALSE, n |-> 0, x |-> x, y |-> y, v |-> v]

\* bracket_visitor and Value::operator[](const Value &)
bracket(a, b) ==
  IF b.t # "NUMBER" THEN Undef
  ELSE LET i == convert_to_uint32(b.d)
       IN  CASE a.t = "STRING" ->
                  IF i < Len(a.s) /\ i < get_utf8_strlen(a.s)
                  THEN Str(g_utf8_strncpy(a.s,
                                          g_utf8_offset_to_pointer(a.s, 1, i)))
                  ELSE Undef
             [] a.t = "VECTOR" ->
                  IF i < Len(a.e) THEN a.e[i + 1] ELSE Undef
             [] a.t = "RANGE" ->
                  IF i = 0 THEN Num(a.r.begin_val)
                  ELSE IF i = 1 THEN Num(a.r.step_val)
                  ELSE IF i = 2 THEN Num(a.r.end_val)
                  ELSE Undef
             [] OTHER -> Undef

Bytes_euro == <<226, 130, 172>>
Bytes_grin == <<240, 159, 152, 128>>

IndexStrings ==
  {<<>>, Bytes_a, Bytes_ab, Bytes_eacute, Bytes_a \o Bytes_eacute,
   Bytes_eacute \o Bytes_a, Bytes_a \o Bytes_eacute \o Bytes_b, Bytes_euro,
   Bytes_euro \o Bytes_eacute, Bytes_a \o Bytes_grin \o Bytes_b}

IndexElems == {Num(Fin(1)), Str(Bytes_a), Vec(<<Num(Fin(2))>>)}

IndexReceivers ==
  {Str(s) : s \in IndexStrings}
    \cup {Vec(e) : e \in SeqsOver(IndexElems, MaxVecLen)}
    \cup {Undef, Num(Fin(1)), Rng(Range(Fin(0), Fin(1), Fin(2)), 1)}

IndexDoubles ==
  {NaN, PInf, NInf, Fin(UINT32_MAX), Frac(UINT32_MAX), Fin(UINT32_MAX + 1)}
    \cup {Fin(n) : n \in (0 - MaxVecLen) .. (MaxVecLen + 1)}
    \cup {Frac(n) : n \in (0 - MaxVecLen) .. MaxVecLen}

IndexValues ==
  {Num(d) : d \in IndexDoubles} \cup {Undef, Bool(TRUE), Str(Bytes_a)}

InitIndex ==
  /\ va \in IndexReceivers
  /\ vb \in IndexValues
  /\ ub_cast \in CastModes
  /\ out = NoOut
  /\ RangeIdle
  /\ ChrIdle
  /\ VecIdle
  /\ EmbIdle

\* Value::operator[](const Value &)
Index ==
  /\ out = NoOut
  /\ out' = OutVal("[]", va, vb, bracket(va, vb))
  /\ UNCHANGED <<rng1, rng2, ita, itb, ub_cast, cmpVars, chrVars, vecVars, embVars>>

NextIndex == Index

SpecIndex == InitIndex /\ [][NextIndex]_vars

-----------------------------------------------------------------------------
(* Arithmetic on Values: plus_visitor, minus_visitor, Value::operator*,    *)
(* operator/, operator% and the unary operator-.  A read of a std::vector  *)
(* past its end and a failed assert are results of their own, so that the  *)
(* checks the code makes before each read are part of the model.           *)

OutOfBounds == MkValue("OUT_OF_BOUNDS", FALSE, Zero, <<>>, <<>>, NoRange, 0)
AssertFailed == MkValue("ASSERT_FAILED", FALSE, Zero, <<>>, <<>>, NoRange, 0)
IsFault(v) == v.t \in {"OUT_OF_BOUNDS", "ASSERT_FAILED"}

\* std::vector<Value>::operator[], i counted from 0
At(vec, i) == IF i < Len(vec) THEN vec[i + 1] ELSE OutOfBounds

\* Value::toVector: the empty vector for a Value that is no Vector
toVector(v) == IF v.t = "VECTOR" THEN v.e ELSE <<>>

\* Value::toDouble: 0.0 for a Value that is no Number
toDouble(v) == IF v.t = "NUMBER" THEN v.d ELSE Zero

DNeg(a) ==
  IF isnan(a) THEN NaN
  ELSE IF a.k = "frac" THEN Frac(0 - a.n - 1)
  ELSE [a EXCEPT !.n = 0 - a.n]
DSub(a, b) == DAdd(a, DNeg(b))

\* a / b.  A quotient of two whole numbers is whole or, in this model, a
\* whole number and a half (the operands are drawn so that it is).
DDiv(a, b) ==
  IF isnan(a) \/ isnan(b) THEN NaN
  ELSE IF isinf(a) THEN (IF isinf(b) THEN NaN
                         ELSE [k |-> "inf",
                               n |-> a.n * (IF b.n < 0 THEN -1 ELSE 1)])
  ELSE IF isinf(b) THEN Zero
  ELSE IF b.n = 0 THEN (IF a.n = 0 THEN NaN
                        ELSE [k |-> "inf", n |-> Sign(a.n)])
  ELSE LET num == a.n * Sign(b.n)
           den == Abs(b.n)
       IN  IF num % den = 0 THEN Fin(num \div den) ELSE Frac(num \div den)

\* fmod(a, b)
DMod(a, b) ==
  IF isnan(a) \/ isnan(b) \/ isinf(a) THEN NaN
  ELSE IF isinf(b) THEN a
  ELSE IF b.n = 0 THEN NaN
  ELSE Fin(Sign(a.n) * (Abs(a.n) % Abs(b.n)))

MinLen(x, y) == IF Len(x) < Len(y) THEN Len(x) ELSE Len(y)

\* the VectorPtr a loop has built by push_back, or the first fault met
Collect(rs) ==
  IF \E i \in 1..Len(rs) : IsFault(rs[i])
  THEN rs[CHOOSE i \in 1..Len(rs) :
            IsFault(rs[i]) /\ \A j \in 1..(i - 1) : ~IsFault(rs[j])]
  ELSE Vec(rs)

Plus_longest(a, b) ==
  IF a.t = "NUMBER" /\ b.t = "NUMBER" THEN Num(DAdd(a.d, b.d))
  ELSE IF a.t = "VECTOR" /\ b.t = "VECTOR"
       THEN IF Len(a.e) < Len(b.e) THEN b ELSE a
  ELSE Undef

\* plus_visitor / Value::operator+
RECURSIVE Plus(_, _)
Plus(a, b) ==
  IF a.t = "NUMBER" /\ b.t = "NUMBER" THEN Num(DAdd(a.d, b.d))
  ELSE IF a.t = "VECTOR" /\ b.t = "VECTOR"
       THEN Collect([i \in 1..MinLen(a.e, b.e) |-> Plus(a.e[i], b.e[i])])
  ELSE Undef

\* minus_visitor / Value::operator-
RECURSIVE Minus(_, _)
Minus(a, b) ==
  IF a.t = "NUMBER" /\ b.t = "NUMBER" THEN Num(DSub(a.d, b.d))
  ELSE IF a.t = "VECTOR" /\ b.t = "VECTOR"
       THEN Collect([i \in 1..MinLen(a.e, b.e) |-> Minus(a.e[i], b.e[i])])
  ELSE Undef

\* the first result of a loop that is no Number (the loop returned there),
\* or the VectorPtr of the Numbers it pushed
FirstStop(rs) ==
  IF \E i \in 1..Len(rs) : rs[i].t # "NUMBER"
  THEN rs[CHOOSE i \in 1..Len(rs) :
            rs[i].t # "NUMBER" /\ \A j \in 1..(i - 1) : rs[j].t = "NUMBER"]
  ELSE Vec(rs)

\* multvecvec from element i on (counted from 0), r the sum so far
RECURSIVE multvecvec_loop(_, _, _, _)
multvecvec_loop(vec1, vec2, i, r) ==
  IF i >= Len(vec1) THEN Num(r)
  ELSE LET x == At(vec1, i)
           y == At(vec2, i)
       IN  IF IsFault(y) THEN y
           ELSE IF x.t # "NUMBER" \/ y.t # "NUMBER" THEN Undef
           ELSE multvecvec_loop(vec1, vec2, i + 1,
                                DAdd(r, DMul(toDouble(x), toDouble(y))))

multvecvec_skipFirst(vec1, vec2) == multvecvec_loop(vec1, vec2, 1, Zero)

multvecvec(vec1, vec2) == multvecvec_loop(vec1, vec2, 0, Zero)

\* the inner loop of multmatvec over the columns j of row i
RECURSIVE multmatvec_row(_, _, _, _)
multmatvec_row(row, vectorvec, j, r_e) ==
  IF j >= Len(row) THEN Num(r_e)
  ELSE LET x == At(row, j)
           y == At(vectorvec, j)
       IN  IF IsFault(y) THEN y
           ELSE IF x.t # "NUMBER" \/ y.t # "NUMBER" THEN Undef
           ELSE multmatvec_row(row, vectorvec, j + 1,
                               DAdd(r_e, DMul(toDouble(x), toDouble(y))))

multmatvec_skipFirst(matrixvec, vectorvec) ==
  FirstStop([i \in 1..Len(matrixvec) |->
               IF matrixvec[i].t # "VECTOR"
                  \/ Len(toVector(matrixvec[i])) # Len(vectorvec)
               THEN Undef
               ELSE multmatvec_row(toVector(matrixvec[i]), vectorvec, 1, Zero)])

multmatvec(matrixvec, vectorvec) ==
  FirstStop([i \in 1..Len(matrixvec) |->
               IF matrixvec[i].t # "VECTOR"
                  \/ Len(toVector(matrixvec[i])) # Len(vectorvec)
               THEN Undef
               ELSE multmatvec_row(toVector(matrixvec[i]), vectorvec, 0, Zero)])

\* the inner loop of multvecmat over the rows j for column i
RECURSIVE multvecmat_col(_, _, _, _, _, _)
multvecmat_col(vectorvec, matrixvec, firstRowSize, i, j, r_e) ==
  IF j >= Len(vectorvec) THEN Num(r_e)
  ELSE LET row == At(matrixvec, j)
       IN  IF IsFault(row) THEN row
           ELSE IF row.t # "VECTOR" \/ Len(toVector(row)) # firstRowSize
                THEN Undef
           ELSE IF At(vectorvec, j).t # "NUMBER" THEN Undef
           ELSE LET y == At(toVector(row), i)
                IN  IF IsFault(y) THEN y
                    ELSE IF y.t # "NUMBER" THEN Undef
                    ELSE multvecmat_col(vectorvec, matrixvec, firstRowSize,
                           i, j + 1,
                           DAdd(r_e, DMul(toDouble(At(vectorvec, j)),
                                          toDouble(y))))

multvecmat_asMatVec(vectorvec, matrixvec) == multmatvec(matrixvec, vectorvec)

multvecmat(vectorvec, matrixvec) ==
  IF Len(vectorvec) # Len(matrixvec) THEN AssertFailed
  ELSE LET first == At(matrixvec, 0)
       IN  IF IsFault(first) THEN first
           ELSE LET firstRowSize == Len(toVector(first))
                IN  FirstStop([i \in 1..firstRowSize |->
                                 multvecmat_col(vectorvec, matrixvec,
                                                firstRowSize, i - 1, 0, Zero)])

\* the Matrix * Matrix loop of Value::operator* from row i on (counted from
\* 1), dst the rows pushed so far
RECURSIVE multmatmat_loop(_, _, _, _)
multmatmat_loop(vec1, vec2, i, dst) ==
  IF i > Len(vec1) THEN Collect(dst)
  ELSE LET srcrowvec == toVector(vec1[i])
       IN  IF Len(srcrowvec) # Len(vec2)
           THEN (IF Collect(dst).t = "VECTOR" THEN Undef ELSE Collect(dst))
           ELSE multmatmat_loop(vec1, vec2, i + 1,
                                Append(dst, multvecmat(srcrowvec, vec2)))

SameSize_always(vec1, vec2) == TRUE

\* "vec1.size() == vec2.size()", the test before multvecvec and multvecmat
SameSize(vec1, vec2) == Len(vec1) = Len(vec2)

\* Value::operator*
RECURSIVE Mult(_, _)
Mult(a, b) ==
  IF a.t = "NUMBER" /\ b.t = "NUMBER" THEN Num(DMul(a.d, b.d))
  ELSE IF a.t = "NUMBER" /\ b.t = "VECTOR"
       THEN Collect([i \in 1..Len(b.e) |-> Mult(b.e[i], a)])
  ELSE IF a.t = "VECTOR" /\ b.t = "NUMBER"
       THEN Collect([i \in 1..Len(a.e) |-> Mult(a.e[i], b)])
  ELSE IF a.t = "VECTOR" /\ b.t = "VECTOR"
       THEN LET vec1 == a.e
                vec2 == b.e
            IN  IF vec1 = <<>> \/ vec2 = <<>> THEN Undef
                ELSE IF vec1[1].t = "NUMBER" /\ vec2[1].t = "NUMBER"
                     THEN (IF SameSize(vec1, vec2) THEN multvecvec(vec1, vec2)
                           ELSE Undef)
                ELSE IF vec1[1].t = "NUMBER" /\ vec2[1].t = "VECTOR"
                     THEN (IF SameSize(vec1, vec2) THEN multvecmat(vec1, vec2)
                           ELSE Undef)
                ELSE IF vec1[1].t = "VECTOR" /\ vec2[1].t = "NUMBER"
                     THEN (IF Len(toVector(vec1[1])) = Len(vec2)
                           THEN multmatvec(vec1, vec2) ELSE Undef)
                ELSE IF vec1[1].t = "VECTOR" /\ vec2[1].t = "VECTOR"
                     THEN (IF Len(toVector(vec1[1])) = Len(vec2)
                           THEN multmatmat_loop(vec1, vec2, 1, <<>>)
                           ELSE Undef)
                ELSE Undef
  ELSE Undef

\* Value::operator/
RECURSIVE Div(_, _)
Div(a, b) ==
  IF a.t = "NUMBER" /\ b.t = "NUMBER" THEN Num(DDiv(a.d, b.d))
  ELSE IF a.t = "VECTOR" /\ b.t = "NUMBER"
       THEN Collect([i \in 1..Len(a.e) |-> Div(a.e[i], b)])
  ELSE IF a.t = "NUMBER" /\ b.t = "VECTOR"
       THEN Collect([i \in 1..Len(b.e) |-> Div(a, b.e[i])])
  ELSE Undef

\* Value::operator%
Mod(a, b) ==
  IF a.t = "NUMBER" /\ b.t = "NUMBER" THEN Num(DMod(a.d, b.d)) ELSE Undef

\* Value::operator-() const
RECURSIVE Neg(_)
Neg(a) ==
  IF a.t = "NUMBER" THEN Num(DNeg(a.d))
  ELSE IF a.t = "VECTOR" THEN Collect([i \in 1..Len(a.e) |-> Neg(a.e[i])])
  ELSE Undef

BinOps == {"+", "-", "*", "/", "%"}

Apply(op, a, b) ==
  CASE op = "+" -> Plus(a, b)
    [] op = "-" -> Minus(a, b)
    [] op = "*" -> Mult(a, b)
    [] op = "/" -> Div(a, b)
    [] OTHER -> Mod(a, b)

ArithNums == {NaN, PInf, Fin(-1), Fin(0), Fin(1), Fin(2)}

ArithScalars ==
  {Undef, Bool(TRUE), Str(Bytes_a), Rng(Range(Fin(0), Fin(1), Fin(2)), 1),
   Fun(1)} \cup {Num(d) : d \in ArithNums}

Entries == {Num(Fin(1)), Num(Fin(2))}

FlatVecs == {Vec(e) : e \in SeqsOver(Entries \cup {Str(Bytes_a)}, MaxDim)}

\* the matrices of r rows and c columns over Entries
Rect(r, c) == {Vec([i \in 1..r |-> Vec(m[i])]) : m \in [1..r -> [1..c -> Entries]]}

RectMats == UNION {Rect(r, c) : r \in 1..MaxDim, c \in 0..MaxDim}

\* one matrix of each shape, which is not symmetric
PatternMat(r, c) ==
  Vec([i \in 1..r |-> Vec([j \in 1..c |-> Num(Fin(IF j > i THEN 2 ELSE 1))])])

PatternMats == {PatternMat(r, c) : r \in 1..MaxDim, c \in 1..MaxDim}

Row12 == Vec(<<Num(Fin(1)), Num(Fin(2))>>)
Row1 == Vec(<<Num(Fin(1))>>)
Row1a == Vec(<<Num(Fin(1)), Str(Bytes_a)>>)

\* vectors that are no matrix: ragged rows, rows with an entry that is no
\* Number, elements that are no row, a row nested once more
BadMats ==
  {Vec(<<Row12, Row1>>), Vec(<<Row1, Row12>>), Vec(<<Vec(<<>>), Row1>>),
   Vec(<<Row1a, Row12>>), Vec(<<Row12, Row1a>>), Vec(<<Row12, Num(Fin(1))>>),
   Vec(<<Row12, Str(Bytes_a)>>), Vec(<<Num(Fin(1)), Row12>>),
   Vec(<<Vec(<<Row1>>)>>), Vec(<<Undef, Num(Fin(1))>>)}

ArithValues == ArithScalars \cup FlatVecs \cup RectMats \cup BadMats
ArithSmall == ArithScalars \cup FlatVecs \cup PatternMats \cup BadMats

InitArith ==
  /\ va \in ArithValues
  /\ vb \in ArithSmall
  /\ ub_cast = "wrap"
  /\ out = NoOut
  /\ RangeIdle
  /\ ChrIdle
  /\ VecIdle
  /\ EmbIdle

arithFrame == <<rng1, rng2, ita, itb, ub_cast, cmpVars, chrVars, vecVars, embVars>>

\* va op vb
BinOp(op) ==
  /\ out = NoOut
  /\ out' = OutVal(op, va, vb, Apply(op, va, vb))
  /\ UNCHANGED arithFrame

\* vb op va
BinOpSwapped(op) ==
  /\ out = NoOut
  /\ out' = OutVal(op, vb, va, Apply(op, vb, va))
  /\ UNCHANGED arithFrame

\* -va
Negate ==
  /\ out = NoOut
  /\ out' = OutVal("neg", va, Undef, Neg(va))
  /\ UNCHANGED arithFrame

\* vb[va]
IndexSwapped ==
  /\ out = NoOut
  /\ out' = OutVal("[]", vb, va, bracket(vb, va))
  /\ UNCHANGED arithFrame

NextArith ==
  \/ \E op \in BinOps : BinOp(op)
  \/ \E op \in BinOps : BinOpSwapped(op)
  \/ Negate
  \/ Index
  \/ IndexSwapped

SpecArith == InitArith /\ [][NextArith]_vars

-----------------------------------------------------------------------------
(* Value::clone, Value::toString and Value::toStream.  A text is the       *)
(* sequence of its bytes.  DoubleConvert is DoubleToStringConverter::      *)
(* ToPrecision with 6 significant digits followed by trimTrailingZeroes.   *)

DC_INF == <<105, 110, 102>>          \* "inf"
DC_NAN == <<110, 97, 110>>           \* "nan"
DC_EXP == 101                        \* 'e'
DC_MAX_LEADING_ZEROES == 5
DC_MAX_TRAILING_ZEROES == 0
DC_PRECISION_REQUESTED == 6

Max(a, b) == IF a > b THEN a ELSE b
Zeroes(n) == [i \in 1..Max(0, n) |-> 48]

\* the decimal digits of n >= 0, as numbers 0..9
RECURSIVE DigitsOf(_)
DigitsOf(n) == IF n < 10 THEN <<n>> ELSE Append(DigitsOf(n \div 10), n % 10)

AsText(digits) == [i \in 1..Len(digits) |-> 48 + digits[i]]

\* DoubleToAscii in PRECISION mode: at most `precision` digits of |d|, the
\* last one rounded (half up), and the position of the decimal point
DoubleToAscii(d, precision) ==
  LET scaled == IF d.k = "frac" THEN Abs(2 * d.n + 1) * 5 ELSE Abs(d.n)
      all    == DigitsOf(scaled)
      point  == IF d.k = "frac" THEN Len(all) - 1 ELSE Len(all)
      drop   == Len(all) - precision
      unit   == 10 ^ Max(0, drop)
      kept   == IF 2 * (scaled % unit) >= unit THEN (scaled \div unit) + 1
                ELSE scaled \div unit
  IN  IF drop <= 0 THEN [digits |-> all, point |-> point]
      ELSE IF kept = 10 ^ precision
           THEN [digits |-> DigitsOf(kept \div 10), point |-> point + 1]
      ELSE [digits |-> DigitsOf(kept), point |-> point]

\* DoubleToStringConverter::CreateExponentialRepresentation
CreateExponentialRepresentation(digits, length, exponent) ==
  <<48 + digits[1]>>
    \o (IF length > 1
        THEN <<46>> \o AsText(SubSeq(digits, 2, Len(digits)))
                    \o Zeroes(length - Len(digits))
        ELSE <<>>)
    \o <<DC_EXP>>
    \o (IF exponent < 0 THEN <<45>> ELSE <<43>>)
    \o AsText(DigitsOf(Abs(exponent)))

\* DoubleToStringConverter::CreateDecimalRepresentation
CreateDecimalRepresentation(digits, point, digits_after_point) ==
  IF point <= 0
  THEN <<48, 46>> \o Zeroes(-point) \o AsText(digits)
         \o Zeroes(digits_after_point - (-point) - Len(digits))
  ELSE IF point >= Len(digits)
  THEN AsText(digits) \o Zeroes(point - Len(digits))
         \o (IF digits_after_point > 0
             THEN <<46>> \o Zeroes(digits_after_point) ELSE <<>>)
  ELSE AsText(SubSeq(digits, 1, point)) \o <<46>>
         \o AsText(SubSeq(digits, point + 1, Len(digits)))
         \o Zeroes(digits_after_point - (Len(digits) - point))

IsNegativeDouble(d) == d.n < 0

\* dc.ToPrecision(value, precision, &builder) of a finite value
ToPrecision(d, precision) ==
  LET rep      == DoubleToAscii(d, precision)
      exponent == rep.point - 1
      as_exp   == \/ -rep.point + 1 > DC_MAX_LEADING_ZEROES
                  \/ rep.point - precision > DC_MAX_TRAILING_ZEROES
  IN  (IF IsNegativeDouble(d) THEN <<45>> ELSE <<>>)
        \o (IF as_exp
            THEN CreateExponentialRepresentation(rep.digits, precision, exponent)
            ELSE CreateDecimalRepresentation(rep.digits, rep.point,
                                             Max(0, precision - rep.point)))

\* strchr(buffer, c): the position of the first c in buf, 0 for nullptr
strchr(buf, c) ==
  IF \E i \in 1..Len(buf) : buf[i] = c
  THEN CHOOSE i \in 1..Len(buf) : buf[i] = c /\ \A j \in 1..(i - 1) : buf[j] # c
  ELSE 0

\* trimTrailingZeroesHelper: positions are indices into buf, 0 is nullptr and
\* pos is the index of the terminator.  Every return gives
\* TRIM_TRAILINGZEROES_DONE, so after a recursive call returns no later
\* branch of the caller runs: the result is the buffer the innermost call
\* leaves, read up to its terminator.
RECURSIVE trimTrailingZeroesHelper(_, _, _, _, _, _)
trimTrailingZeroesHelper(buf, pos, currentpos, exppos, decimalpos, zeropos) ==
  IF currentpos <= 1 THEN buf
  ELSE IF currentpos = pos
  THEN trimTrailingZeroesHelper(buf, pos, currentpos - 1, exppos, decimalpos,
                                zeropos)
  ELSE IF exppos # 0 /\ currentpos >= exppos
  THEN trimTrailingZeroesHelper(buf, pos, exppos - 1, exppos, decimalpos,
                                zeropos)
  ELSE IF decimalpos < currentpos /\ buf[currentpos] = 48
  THEN trimTrailingZeroesHelper(buf, pos, currentpos - 1, exppos, decimalpos,
                                currentpos)
  ELSE IF zeropos # 0 /\ exppos # 0
  THEN LET dest == IF zeropos - 1 = decimalpos THEN decimalpos ELSE zeropos
       IN  SubSeq(buf, 1, dest - 1) \o SubSeq(buf, exppos, pos - 1)
  ELSE IF zeropos # 0
  THEN LET cut == IF zeropos - 1 = decimalpos THEN decimalpos ELSE zeropos
       IN  SubSeq(buf, 1, cut - 1)
  ELSE buf

trimTrailingZeroes_noExponent(buf, pos) ==
  LET decimal == strchr(buf, 46)
  IN  IF decimal # 0
      THEN trimTrailingZeroesHelper(buf, pos, pos, 0, decimal, 0)
      ELSE buf

trimTrailingZeroes(buf, pos) ==
  LET decimal == strchr(buf, 46)
  IN  IF decimal # 0
      THEN trimTrailingZeroesHelper(buf, pos, pos, strchr(buf, DC_EXP),
                                    decimal, 0)
      ELSE buf

\* HandleSpecialValues
HandleSpecialValues(d) ==
  IF isinf(d) THEN (IF d.n < 0 THEN <<45>> ELSE <<>>) \o DC_INF
  ELSE DC_NAN

DoubleConvert(d) ==
  IF ~isfinite(d) THEN HandleSpecialValues(d)
  ELSE LET buffer == ToPrecision(d, DC_PRECISION_REQUESTED)
       IN  trimTrailingZeroes(buffer, Len(buffer) + 1)

\* operator<<(std::ostream&, const RangeType&)
RangeText(r) ==
  <<91>> \o DoubleConvert(r.begin_val) \o <<32, 58, 32>>
         \o DoubleConvert(r.step_val) \o <<32, 58, 32>>
         \o DoubleConvert(r.end_val) \o <<93>>

\* operator<<(std::ostream&, const FunctionType&) of a function without
\* arguments; the text of its expression stands for the object
FunctionText(id) ==
  <<102, 117, 110, 99, 116, 105, 111, 110, 40, 41, 32>> \o AsText(<<id>>)

T_undef == <<117, 110, 100, 101, 102>>
T_true == <<116, 114, 117, 101>>
T_false == <<102, 97, 108, 115, 101>>

\* ", " between the elements of a vector
RECURSIVE JoinTexts(_, _)
JoinTexts(texts, i) ==
  IF i > Len(texts) THEN <<>>
  ELSE (IF i > 1 THEN <<44, 32>> ELSE <<>>) \o texts[i] \o JoinTexts(texts, i + 1)

\* tostream_visitor: what Value::toStream appends to the stream
RECURSIVE toStream(_)
toStream(v) ==
  CASE v.t = "UNDEFINED" -> T_undef
    [] v.t = "BOOL" -> (IF v.b THEN T_true ELSE T_false)
    [] v.t = "NUMBER" -> DoubleConvert(v.d)
    [] v.t = "STRING" -> <<34>> \o v.s \o <<34>>
    [] v.t = "VECTOR" ->
         <<91>> \o JoinTexts([i \in 1..Len(v.e) |-> toStream(v.e[i])], 1)
                \o <<93>>
    [] v.t = "RANGE" -> RangeText(v.r)
    [] OTHER -> FunctionText(v.id)

\* tostring_visitor: what Value::toString returns
toString(v) ==
  CASE v.t = "UNDEFINED" -> T_undef
    [] v.t = "BOOL" -> (IF v.b THEN T_true ELSE T_false)
    [] v.t = "NUMBER" -> DoubleConvert(v.d)
    [] v.t = "STRING" -> v.s
    [] v.t = "VECTOR" ->
         <<91>> \o JoinTexts([i \in 1..Len(v.e) |-> toStream(v.e[i])], 1)
                \o <<93>>
    [] v.t = "RANGE" -> RangeText(v.r)
    [] OTHER -> FunctionText(v.id)

clone_scalarsOnly(v) ==
  CASE v.t = "BOOL" -> Bool(v.b)
    [] v.t = "NUMBER" -> Num(v.d)
    [] v.t = "STRING" -> Str(v.s)
    [] OTHER -> Undef

\* Value::clone: a handle is copied, the object it points to is shared
clone(v) ==
  CASE v.t = "UNDEFINED" -> Undef
    [] v.t = "BOOL" -> Bool(v.b)
    [] v.t = "NUMBER" -> Num(v.d)
    [] v.t = "STRING" -> Str(v.s)
    [] v.t = "RANGE" -> Rng(v.r, v.id)
    [] v.t = "VECTOR" -> Vec(v.e)
    [] OTHER -> Fun(v.id)

OutText(op, x, s) == [op |-> op, b |-> FALSE, n |-> 0, x |-> x, s |-> s]

TextDoubles ==
  {NaN, PInf, NInf, Frac(0), Frac(-1), Frac(1), Frac(12), Frac(12345)}
    \cup {Fin(n) : n \in {0, 1, -1, 10, 120, 100000, 123456, 999999, 1000000,
                          1234567, 9999996, 1500000000, -1500000000}}

TextScalars ==
  {Undef, Bool(FALSE), Bool(TRUE), Str(<<>>), Str(Bytes_a), Str(Bytes_eacute),
   Rng(Range(Fin(0), Frac(0), Fin(1000000)), 1), Fun(1), Fun(2)}
    \cup {Num(d) : d \in TextDoubles}

TextElems ==
  {Undef, Num(Frac(1)), Str(Bytes_a), Vec(<<>>), Vec(<<Str(Bytes_a), Num(Fin(10))>>)}

TextValues == TextScalars \cup {Vec(e) : e \in SeqsOver(TextElems, MaxVecLen)}

InitText ==
  /\ va \in TextValues
  /\ vb = Undef
  /\ ub_cast = "wrap"
  /\ out = NoOut
  /\ RangeIdle
  /\ ChrIdle
  /\ VecIdle
  /\ EmbIdle

textFrame == <<rng1, rng2, ita, itb, ub_cast, chrVars, vecVars, embVars>>

\* v.toString()
CallToString ==
  /\ out = NoOut
  /\ out' = OutText("toString", va, toString(va))
  /\ UNCHANGED <<va, vb, textFrame>>

\* v.toStream(stream) on an empty stream
CallToStream ==
  /\ out = NoOut
  /\ out' = OutText("toStream", va, toStream(va))
  /\ UNCHANGED <<va, vb, textFrame>>

\* c = v.clone(); c.toString()
CallClone ==
  /\ out = NoOut
  /\ vb' = clone(va)
  /\ out' = OutText("clone", va, toString(clone(va)))
  /\ UNCHANGED <<va, textFrame>>

NextText == CallToString \/ CallToStream \/ CallClone

SpecText == InitText /\ [][NextText]_vars

-----------------------------------------------------------------------------
(* Value::getVec2 and Value::getVec3.  The doubles the caller passes by    *)
(* reference are the record xyz; Unset is a double the call has not        *)
(* assigned.                                                               *)

Unset == [k |-> "unset", n |-> 0]
NoXYZ == [x |-> Unset, y |-> Unset, z |-> Unset]

\* Value::getDouble(double &v): the result and the new value of v
getDouble(val, v) ==
  IF val.t = "NUMBER" THEN [ok |-> TRUE, v |-> val.d]
  ELSE [ok |-> FALSE, v |-> v]

\* Value::getFiniteDouble(double &v)
getFiniteDouble(val, v) ==
  LET r == getDouble(val, Unset)
  IN  IF ~r.ok THEN [ok |-> FALSE, v |-> v]
      ELSE IF isfinite(r.v) THEN [ok |-> TRUE, v |-> r.v]
      ELSE [ok |-> FALSE, v |-> v]

\* Value::getVec2(x, y, ignoreInfinite): the result and the new x, y, z
getVec2(val, xyz, ignoreInfinite) ==
  IF val.t # "VECTOR" THEN [ret |-> FALSE, xyz |-> xyz]
  ELSE IF Len(val.e) # 2 THEN [ret |-> FALSE, xyz |-> xyz]
  ELSE LET rx == IF ignoreInfinite THEN getFiniteDouble(val.e[1], Unset)
                 ELSE getDouble(val.e[1], Unset)
           ry == IF ignoreInfinite THEN getFiniteDouble(val.e[2], Unset)
                 ELSE getDouble(val.e[2], Unset)
           valid == rx.ok /\ ry.ok
       IN  [ret |-> valid,
            xyz |-> IF valid THEN [xyz EXCEPT !.x = rx.v, !.y = ry.v] ELSE xyz]

\* Value::getVec3(x, y, z): && stops at the first getDouble that fails
getVec3(val, xyz) ==
  IF val.t # "VECTOR" THEN [ret |-> FALSE, xyz |-> xyz]
  ELSE IF Len(val.e) # 3 THEN [ret |-> FALSE, xyz |-> xyz]
  ELSE LET rx == getDouble(val.e[1], xyz.x)
           ry == IF rx.ok THEN getDouble(val.e[2], xyz.y)
                 ELSE [ok |-> FALSE, v |-> xyz.y]
           rz == IF ry.ok THEN getDouble(val.e[3], xyz.z)
                 ELSE [ok |-> FALSE, v |-> xyz.z]
       IN  [ret |-> rx.ok /\ ry.ok /\ rz.ok,
            xyz |-> [x |-> rx.v, y |-> ry.v, z |-> rz.v]]

\* Value::getVec3(x, y, z, defaultval)
getVec3_default(val, xyz, defaultval) ==
  IF val.t # "VECTOR" THEN [ret |-> FALSE, xyz |-> xyz]
  ELSE IF Len(val.e) = 2
  THEN [ret |-> TRUE,
        xyz |-> [getVec2(val, xyz, FALSE).xyz EXCEPT !.z = defaultval]]
  ELSE getVec3(val, xyz)

OutVec(op, x, r) ==
  [op |-> op, b |-> r.ret, n |-> 0, x |-> x, xyz |-> r.xyz]

GetVecElems ==
  {Num(Fin(1)), Num(Fin(2)), Num(PInf), Num(NaN), Str(Bytes_a), Undef}
GetVecValues ==
  {Undef, Num(Fin(1)), Str(Bytes_a)}
    \cup {Vec(e) : e \in SeqsOver(GetVecElems, 3)}
    \cup {Vec(<<Num(Fin(1)), Num(Fin(2)), Num(Fin(1)), Num(Fin(2))>>)}
DefaultVal == Fin(7)

InitGetVec ==
  /\ va \in GetVecValues
  /\ vb = Undef
  /\ ub_cast = "wrap"
  /\ out = NoOut
  /\ RangeIdle
  /\ ChrIdle
  /\ VecIdle
  /\ EmbIdle

\* v.getVec2(x, y, ignoreInfinite)
CallGetVec2(ignoreInfinite) ==
  /\ out = NoOut
  /\ out' = OutVec(IF ignoreInfinite THEN "getVec2 finite" ELSE "getVec2",
                   va, getVec2(va, NoXYZ, ignoreInfinite))
  /\ UNCHANGED <<va, vb, textFrame>>

\* v.getVec3(x, y, z)
CallGetVec3 ==
  /\ out = NoOut
  /\ out' = OutVec("getVec3", va, getVec3(va, NoXYZ))
  /\ UNCHANGED <<va, vb, textFrame>>

\* v.getVec3(x, y, z, defaultval)
CallGetVec3Default ==
  /\ out = NoOut
  /\ out' = OutVec("getVec3 default", va, getVec3_default(va, NoXYZ, DefaultVal))
  /\ UNCHANGED <<va, vb, textFrame>>

NextGetVec ==
  \/ \E ignoreInfinite \in BOOLEAN : CallGetVec2(ignoreInfinite)
  \/ CallGetVec3
  \/ CallGetVec3Default

SpecGetVec == InitGetVec /\ [][NextGetVec]_vars

-----------------------------------------------------------------------------
(* Value::VectorType with embedded vectors: a shared_ptr to a VectorObject *)
(* (vec, embed_excess).  An EmbeddedVectorType is a pseudo-element of its  *)
(* parent's vec, whose elements count as elements of the parent;           *)
(* embed_excess is the number of elements in excess of vec.size().  The    *)
(* members that value.h only declares are modelled from the description of *)
(* the sequence: appending, iteration, flatten and release.                *)

Embedded(o) == MkValue("EMBEDDED_VECTOR", FALSE, Zero, <<>>, <<>>, NoRange, o)
IsEmbedded(v) == v.t = "EMBEDDED_VECTOR"

size_flatOnly(o) == Len(vobj[o].vec)

\* VectorType::size()
size(o) == Len(vobj[o].vec) + vobj[o].embed_excess

\* VectorType::empty()
empty(o) == Len(vobj[o].vec) = 0

\* the VectorObjects the embedded pseudo-elements of o point to, in order
RECURSIVE ChildrenFrom(_, _)
ChildrenFrom(vec, i) ==
  IF i > Len(vec) THEN <<>>
  ELSE (IF IsEmbedded(vec[i]) THEN <<vec[i].id>> ELSE <<>>)
         \o ChildrenFrom(vec, i + 1)

Children(o) == ChildrenFrom(vobj[o].vec, 1)

\* the VectorObjects reachable from o through embedded pseudo-elements
RECURSIVE Descendants(_, _)
Descendants(o, fuel) ==
  IF fuel = 0 THEN {}
  ELSE LET kids == {Children(o)[i] : i \in 1..Len(Children(o))}
       IN  kids \cup UNION {Descendants(k, fuel - 1) : k \in kids}

\* iterator::check_and_push: while the iterator stands on an embedded
\* vector, push the position and descend to the first element of the child
RECURSIVE check_and_push(_)
check_and_push(it) ==
  IF it.i <= Len(vobj[it.o].vec) /\ IsEmbedded(vobj[it.o].vec[it.i])
  THEN check_and_push([it_stack |-> Append(it.it_stack, <<it.o, it.i>>),
                       o |-> vobj[it.o].vec[it.i].id, i |-> 1])
  ELSE it

\* at the end of an embedded vector, pop the position in the parent and
\* step past the pseudo-element
RECURSIVE pop_finished(_)
pop_finished(it) ==
  IF it.i > Len(vobj[it.o].vec) /\ it.it_stack # <<>>
  THEN LET top == it.it_stack[Len(it.it_stack)]
       IN  pop_finished([it_stack |-> SubSeq(it.it_stack, 1, Len(it.it_stack) - 1),
                         o |-> top[1], i |-> top[2] + 1])
  ELSE it

\* iterator::iterator(vec, get_end)
vec_iterator(o, get_end) ==
  IF get_end THEN [it_stack |-> <<>>, o |-> o, i |-> Len(vobj[o].vec) + 1]
  ELSE check_and_push([it_stack |-> <<>>, o |-> o, i |-> 1])

\* iterator::operator++
vec_incr(it) == check_and_push(pop_finished([it EXCEPT !.i = @ + 1]))

\* for (const auto &el : vec): the elements from it up to last
RECURSIVE IterateFrom(_, _, _)
IterateFrom(it, last, fuel) ==
  IF it = last \/ fuel = 0 THEN <<>>
  ELSE <<vobj[it.o].vec[it.i]>> \o IterateFrom(vec_incr(it), last, fuel - 1)

Iterate(o) ==
  IterateFrom(vec_iterator(o, FALSE), vec_iterator(o, TRUE), 2 * MaxElems)

\* VectorType::flatten(): vec becomes the clones of the elements the
\* iteration yields and embed_excess 0; the old vec is destroyed and with it
\* the embedded vectors only it referred to
flatten_vec(objs, o) ==
  [x \in ObjIds |->
     IF x = o THEN [alloc |-> TRUE, vec |-> Iterate(o), embed_excess |-> 0]
     ELSE IF x \in Descendants(o, MaxObjs) THEN NoObj
     ELSE objs[x]]

VectorIndex_noFlatten(o, idx) ==
  IF idx < size(o)
  THEN [objs |-> vobj,
        val |-> IF idx < Len(vobj[o].vec) THEN vobj[o].vec[idx + 1] ELSE Undef]
  ELSE [objs |-> vobj, val |-> Undef]

\* VectorType::operator[](size_t idx): the VectorObjects after the call and
\* the Value returned
VectorIndex(o, idx) ==
  IF idx < size(o)
  THEN LET objs == IF vobj[o].embed_excess # 0 THEN flatten_vec(vobj, o)
                   ELSE vobj
       IN  [objs |-> objs, val |-> objs[o].vec[idx + 1]]
  ELSE [objs |-> vobj, val |-> Undef]

emplace_back_front(vec, x) == <<x>> \o vec

\* VectorType::emplace_back(Args&&...): ptr->vec.emplace_back(args...)
emplace_back(vec, x) == Append(vec, x)

\* VectorType::emplace_back(EmbeddedVectorType&& mbed) on VectorObject o:
\* an embedded vector of two or more elements becomes one pseudo-element
\* and adds its other elements to embed_excess; one of a single element
\* gives that element; an empty one gives nothing
emplace_back_embedded(objs, o, m) ==
  IF size(m) > 1
  THEN [objs EXCEPT ![o].vec = emplace_back(@, Embedded(m)),
                    ![o].embed_excess = @ + size(m) - 1]
  ELSE IF size(m) = 1
  THEN [objs EXCEPT ![o].vec = emplace_back(@, objs[m].vec[1]), ![m] = NoObj]
  ELSE [objs EXCEPT ![m] = NoObj]

FreeObjs == {o \in ObjIds : ~vobj[o].alloc}
NewObj == CHOOSE o \in FreeObjs : \A p \in FreeObjs : o <= p

SeqElems == {Num(Fin(1)), Num(Fin(2))}

\* indices: the first element, the last of a full sequence, one past it
IndexArgs == {0, MaxElems - 1, MaxElems}

Idle == rel.stack = <<>>

\* the elements of the sequences in use
Live ==
  LET n(h) == IF vh[h] = 0 THEN 0 ELSE size(vh[h])
  IN  n("a") + n("b")

\* VectorType(): a new, empty VectorObject
NewSeq(h) ==
  /\ Idle
  /\ vh[h] = 0
  /\ FreeObjs # {}
  /\ vobj' = [vobj EXCEPT ![NewObj] = [NoObj EXCEPT !.alloc = TRUE]]
  /\ vh' = [vh EXCEPT ![h] = NewObj]
  /\ logical' = [logical EXCEPT ![h] = <<>>]
  /\ out' = NoOut
  /\ rel' = NoRel

\* h.emplace_back(x), x a Number
EmplaceValue(h, x) ==
  /\ Idle
  /\ vh[h] # 0
  /\ Live < MaxElems
  /\ vobj' = [vobj EXCEPT ![vh[h]].vec = emplace_back(@, x)]
  /\ logical' = [logical EXCEPT ![h] = Append(@, x)]
  /\ out' = NoOut
  /\ rel' = NoRel
  /\ UNCHANGED vh

\* h.emplace_back(EmbeddedVectorType(std::move(g)))
EmplaceEmbedded(h, g) ==
  /\ Idle
  /\ vh[h] # 0
  /\ vh[g] # 0
  /\ h # g
  /\ vobj' = emplace_back_embedded(vobj, vh[h], vh[g])
  /\ vh' = [vh EXCEPT ![g] = 0]
  /\ logical' = [logical EXCEPT ![h] = @ \o logical[g], ![g] = <<>>]
  /\ out' = NoOut
  /\ rel' = NoRel

OutIndex(h, idx, before, val) ==
  [op |-> "vec[]", b |-> FALSE, n |-> idx, h |-> h, before |-> before,
   v |-> val]

\* h[idx]
CallVectorIndex(h, idx) ==
  /\ Idle
  /\ vh[h] # 0
  /\ LET r == VectorIndex(vh[h], idx)
     IN  /\ vobj' = r.objs
         /\ out' = OutIndex(h, idx,
                            [vec |-> vobj[vh[h]].vec,
                             embed_excess |-> vobj[vh[h]].embed_excess,
                             iterated |-> Iterate(vh[h])],
                            r.val)
  /\ rel' = NoRel
  /\ UNCHANGED <<vh, logical>>

purge_children_none(o) == <<>>

\* VectorObjectDeleter: the shared_ptrs of the embedded vectors of o, moved
\* out of its vec into the worklist before o is deleted
purge_children(o) == Children(o)

\* a call of VectorObjectDeleter::operator() with its worklist purge; nested
\* are the embedded vectors left in a vec that was destroyed, each released
\* by a call of the deleter from inside this one
Frame(o) == [purge |-> <<o>>, nested |-> <<>>]

Remaining(all, moved) ==
  SelectSeq(all, LAMBDA c : \A i \in 1..Len(moved) : moved[i] # c)

PeakOf(stack) == IF Len(stack) > rel.peak THEN Len(stack) ELSE rel.peak

\* the last handle of a VectorObject goes away: the deleter is called
ReleaseBegin(h) ==
  /\ Idle
  /\ vh[h] # 0
  /\ vh' = [vh EXCEPT ![h] = 0]
  /\ logical' = [logical EXCEPT ![h] = <<>>]
  /\ rel' = [stack |-> <<Frame(vh[h])>>, peak |-> 1,
             root |-> vh[h],
             tree |-> {vh[h]} \cup Descendants(vh[h], MaxObjs)]
  /\ out' = NoOut
  /\ UNCHANGED vobj

\* one step of the deleter call on top of the call stack
DeleterStep ==
  /\ ~Idle
  /\ LET n     == Len(rel.stack)
         top   == rel.stack[n]
         below == SubSeq(rel.stack, 1, n - 1)
     IN  IF top.nested # <<>>
         THEN \* a Value of the destroyed vec releases its VectorObject
              LET stack == Append(Append(below,
                                         [top EXCEPT !.nested = Tail(@)]),
                                  Frame(Head(top.nested)))
              IN  /\ rel' = [rel EXCEPT !.stack = stack, !.peak = PeakOf(stack)]
                  /\ UNCHANGED vobj
         ELSE IF top.purge # <<>>
         THEN \* take a VectorObject off the worklist, move its embedded
              \* vectors onto the worklist and delete it
              LET v     == top.purge[Len(top.purge)]
                  moved == purge_children(v)
                  rest  == SubSeq(top.purge, 1, Len(top.purge) - 1)
                  frame == [purge |-> rest \o moved,
                            nested |-> Remaining(Children(v), moved)]
              IN  /\ rel' = [rel EXCEPT !.stack = Append(below, frame)]
                  /\ vobj' = [vobj EXCEPT ![v] = NoObj]
         ELSE \* the call returns
              /\ rel' = [rel EXCEPT !.stack = below]
              /\ UNCHANGED vobj
  /\ UNCHANGED <<vh, logical, out>>

InitEmbed ==
  /\ EmbIdle
  /\ VecIdle
  /\ RangeIdle
  /\ CmpIdle
  /\ ChrIdle
  /\ ub_cast = "wrap"
  /\ out = NoOut

embFrame == <<rng1, rng2, ita, itb, ub_cast, cmpVars, chrVars, vecVars>>

NextEmbed ==
  \/ \E h \in SeqHandles : NewSeq(h) /\ UNCHANGED embFrame
  \/ \E h \in SeqHandles, x \in SeqElems :
       EmplaceValue(h, x) /\ UNCHANGED embFrame
  \/ \E h \in SeqHandles, g \in SeqHandles :
       EmplaceEmbedded(h, g) /\ UNCHANGED embFrame
  \/ \E h \in SeqHandles, idx \in IndexArgs :
       CallVectorIndex(h, idx) /\ UNCHANGED embFrame
  \/ \E h \in SeqHandles : ReleaseBegin(h) /\ UNCHANGED embFrame
  \/ DeleterStep /\ UNCHANGED embFrame

SpecEmbed == InitEmbed /\ [][NextEmbed]_vars

-----------------------------------------------------------------------------
(* Claims on RangeType::numValues and RangeType::operator== (SpecRange)    *)

AnyNaN(r) == isnan(r.begin_val) \/ isnan(r.step_val) \/ isnan(r.end_val)
DirectionMismatch(r) ==
  \/ DLt(r.step_val, Zero) /\ DLt(r.begin_val, r.end_val)
  \/ DGe(r.step_val, Zero) /\ DGt(r.begin_val, r.end_val)
OneValue(r) == DEq(r.begin_val, r.end_val) \/ isinf(r.step_val)
Unbounded(r) ==
  isinf(r.begin_val) \/ isinf(r.end_val) \/ DEq(r.step_val, Zero)

GeneralCase(r) ==
  ~AnyNaN(r) /\ ~DirectionMismatch(r) /\ ~OneValue(r) /\ ~Unbounded(r)

\* trunc((end - begin) / step) of a range in the general case
StepCount(r) == Abs(r.end_val.n - r.begin_val.n) \div Abs(r.step_val.n)

\* C3: in the general case (finite fields, step # 0, begin # end, step in the
\* direction from begin to end) numValues() is trunc((end - begin)/step) + 1,
\* and UINT32_MAX whenever that step count reaches or exceeds UINT32_MAX.
C3_NumValuesClamped ==
  (out.op = "numValues" /\ GeneralCase(rng1)) =>
    out.n = IF StepCount(rng1) >= UINT32_MAX THEN UINT32_MAX
            ELSE StepCount(rng1) + 1

\* C10: two ranges are equal iff both are empty, or both are non-empty with
\* equal begin, equal step and equal numValues(); the end fields do not count.
C10_RangeEquality ==
  /\ out.op = "range==" =>
       (out.b <=>
          \/ numValues(rng1) = 0 /\ numValues(rng2) = 0
          \/ /\ numValues(rng1) # 0
             /\ numValues(rng2) # 0
             /\ DEq(rng1.begin_val, rng2.begin_val)
             /\ DEq(rng1.step_val, rng2.step_val)
             /\ numValues(rng1) = numValues(rng2))
  /\ out.op = "range==self" => out.b

C10_Witness ==
  /\ out.op = "range=="
  /\ out.b
  /\ numValues(rng1) # 0
  /\ rng1.end_val # rng2.end_val

-----------------------------------------------------------------------------
(* Claims on RangeType::iterator (SpecIter)                                *)

Constructed(it) == it.rng # 0
Terminal(it) == it.type = RANGE_TYPE_END
ImmediateEnd(r) == DEq(r.step_val, Zero) \/ AnyNaN(r)

TerminalExactlyAtNumValues(it) ==
  Constructed(it) =>
    IF ImmediateEnd(RangeOf(it.rng)) THEN Terminal(it)
    ELSE (Terminal(it) <=> it.i_step >= numValues(RangeOf(it.rng)))

\* C4: an iterator is terminal from its construction on when step is 0 or a
\* field is NaN; otherwise it is terminal exactly when its step index has
\* reached numValues().
C4_TerminalExactlyAtNumValues ==
  TerminalExactlyAtNumValues(ita) /\ TerminalExactlyAtNumValues(itb)

C4_Witness ==
  /\ Constructed(ita)
  /\ ~ImmediateEnd(RangeOf(ita.rng))
  /\ numValues(RangeOf(ita.rng)) = 2
  /\ ita.i_step = 2
  /\ Terminal(ita)

\* C5: two iterators compare equal only if both are non-terminal with equal
\* produced value and the same range, or both are terminal for the same range.
C5_EqualOnlyInSameState ==
  (out.op = "it==" /\ out.b) =>
    /\ RangeEq(RangeOf(ita.rng), RangeOf(itb.rng), ita.rng = itb.rng)
    /\ \/ ~Terminal(ita) /\ ~Terminal(itb) /\ DEq(ita.val, itb.val)
       \/ Terminal(ita) /\ Terminal(itb)

\* the value the claim gives for step index k: begin + step * k
AtStep(r, k) == DAdd(r.begin_val, DMul(r.step_val, Fin(k)))

Dereferences(it) ==
  (Constructed(it) /\ ~Terminal(it)) =>
    it.val = AtStep(RangeOf(it.rng), it.i_step)

\* C25: after k advances from begin(), a non-terminal iterator dereferences
\* to begin + step * k, computed from the step index k.
C25_DereferenceAtStep == Dereferences(ita) /\ Dereferences(itb)

DereferencesFrom(it) ==
  (Constructed(it) /\ ~Terminal(it)) =>
    it.val = IF it.i_step = 0 THEN RangeOf(it.rng).begin_val
             ELSE AtStep(RangeOf(it.rng), it.i_step)

\* C25 as amended: a non-terminal iterator dereferences to begin before any
\* advance and to begin + step * k after k >= 1 advances.
C25_DereferenceAfterAdvance == DereferencesFrom(ita) /\ DereferencesFrom(itb)

C25_Witness ==
  /\ Constructed(ita)
  /\ ~Terminal(ita)
  /\ ita.i_step = 2
  /\ RangeOf(ita.rng).step_val = Fin(-1)
  /\ ita.val = Fin(RangeOf(ita.rng).begin_val.n - 2)

\* the iterator compares equal to end() of its range
AtEnd(it) == IterEq(it, end(it.rng))

\* C29: iterating from r.begin() until the iterator equals r.end() yields
\* exactly r.numValues() values: when the iterator first equals end(), it
\* has been advanced numValues() times.
C29_IterationYieldsNumValues ==
  [][( /\ Constructed(ita')
       /\ AtEnd(ita)'
       /\ (~Constructed(ita) \/ ~AtEnd(ita)) )
     => ita'.i_step = numValues(RangeOf(ita.rng)')]_vars

-----------------------------------------------------------------------------
(* Claims on the comparison operators of Value (SpecCompare)               *)

BoolWithNumber(a, b) ==
  (a.t = "BOOL" /\ b.t = "NUMBER") \/ (a.t = "NUMBER" /\ b.t = "BOOL")

\* the double a Bool or a Number compares as
AsDouble(a) == IF a.t = "BOOL" THEN BoolToDouble(a.b) ELSE a.d

\* the own equality of the variant both operands are of
OwnEquality(a, b) ==
  CASE a.t = "UNDEFINED" -> TRUE
    [] a.t = "BOOL" -> a.b = b.b
    [] a.t = "NUMBER" -> DEq(a.d, b.d)
    [] a.t = "STRING" -> a.s = b.s
    [] a.t = "VECTOR" ->
         /\ Len(a.e) = Len(b.e)
         /\ \A i \in 1..Len(a.e) : ValueCmp("==", a.e[i], b.e[i])
    [] a.t = "RANGE" -> RangeEq(a.r, b.r, a.id = b.id)
    [] OTHER -> FALSE

\* C7: == between different variants is false, except Bool against Number,
\* which compares the bool as 0/1; between operands of one variant it is the
\* variant's own equality.  true == 1.0 holds and "a" == 1.0 does not.
C7_EqualityByVariant ==
  out.op = "==" =>
    /\ (va.t # vb.t /\ ~BoolWithNumber(va, vb)) => ~out.b
    /\ BoolWithNumber(va, vb) => (out.b <=> DEq(AsDouble(va), AsDouble(vb)))
    /\ va.t = vb.t => (out.b <=> OwnEquality(va, vb))
    /\ (va = Bool(TRUE) /\ vb = Num(Fin(1))) => out.b
    /\ (va = Str(Bytes_a) /\ vb = Num(Fin(1))) => ~out.b

C7_Witness ==
  /\ out.op = "=="
  /\ va = Num(Fin(1))
  /\ vb = Bool(TRUE)
  /\ out.b

\* C8: every one of ==, <, <=, >, >= is false on two Function values, also on
\* a function and itself or its clone, on FunctionType and on Value alike.
C8_FunctionsNeverCompare ==
  (va.t = "FUNCTION" /\ vb.t = "FUNCTION") =>
    /\ out.op \in CmpOps => ~out.b
    /\ \A op \in CmpOps : ~FunctionCmp(op, va.id, vb.id)

C8_Witness ==
  /\ out.op = "<="
  /\ va.t = "FUNCTION"
  /\ vb = va
  /\ ~out.b

\* x is before y in the lexicographic order that lt induces: at the first
\* position where the two differ under lt, x is smaller, or x is a proper
\* prefix of y up to lt
LexBefore(x, y, lt(_, _)) ==
  \E k \in 1..Len(y) :
    /\ k <= Len(x) + 1
    /\ \A i \in 1..(k - 1) : ~lt(x[i], y[i]) /\ ~lt(y[i], x[i])
    /\ (k = Len(x) + 1 \/ lt(x[k], y[k]))

ValueLess(a, b) == ValueCmp("<", a, b)
ByteLess(a, b) == a < b

LexOrder(op, x, y, lt(_, _)) ==
  CASE op = "<" -> LexBefore(x, y, lt)
    [] op = ">" -> LexBefore(y, x, lt)
    [] op = "<=" -> ~LexBefore(y, x, lt)
    [] OTHER -> ~LexBefore(x, y, lt)

\* C9: each of <, <=, >, >= is false between different variants, except Bool
\* against Number, which compares the bool as 0/1; on two Vectors it is the
\* lexicographic comparison of the elements, on two Strings that of the
\* characters.
C9_OrderingByVariant ==
  out.op \in OrderOps =>
    /\ (va.t # vb.t /\ ~BoolWithNumber(va, vb)) => ~out.b
    /\ BoolWithNumber(va, vb) =>
         (out.b <=> DCmp(out.op, AsDouble(va), AsDouble(vb)))
    /\ (va.t = "VECTOR" /\ vb.t = "VECTOR") =>
         (out.b <=> LexOrder(out.op, va.e, vb.e, ValueLess))
    /\ (va.t = "STRING" /\ vb.t = "STRING") =>
         (out.b <=> LexOrder(out.op, va.s, vb.s, ByteLess))

C9_Witness ==
  /\ out.op = "<"
  /\ va.t = "VECTOR"
  /\ vb.t = "VECTOR"
  /\ Len(va.e) > Len(vb.e)
  /\ out.b

-----------------------------------------------------------------------------
(* Claims on Value::VectorPtr (SpecVector)                                 *)

MutatingOps == {"emplace_back", "append_vector", "flatten"}

\* C1: after one handle was made by clone() of another, no mutating
\* operation performed through one of the two (appending elements,
\* append_vector with it as receiver or as argument, flatten) changes the
\* elements observed through the other.
C1_CloneUnaffected ==
  [][\A h \in Handles, g \in Handles :
       ( /\ <<h, g>> \in cloned
         /\ lastop'.op \in MutatingOps
         /\ (lastop'.recv = h \/ lastop'.arg = h)
         /\ lastop'.recv # g
         /\ lastop'.arg # g )
       => Obs(g)' = Obs(g)]_vars

\* C19: r.append_vector(a) leaves r holding the elements r had before the
\* call followed by the elements a had, whether r was empty (it adopts the
\* store of a) or not (the elements of a are moved onto its end).
C19_AppendVectorConcatenates ==
  [][lastop'.op = "append_vector" =>
       store'[ptr'[lastop'.recv]].vec
         = VecOf(lastop'.recv) \o VecOf(lastop'.arg)]_vars

\* the elements of vec from element i on, each Vector among them replaced
\* by the elements it holds
RECURSIVE OneLevel(_, _)
OneLevel(vec, i) ==
  IF i > Len(vec) THEN <<>>
  ELSE (IF vec[i].t = "VECTOR" THEN store[vec[i].id].vec ELSE <<vec[i]>>)
         \o OneLevel(vec, i + 1)

\* C20: flatten() replaces each element that is a Vector by the elements it
\* holds, one level deep, and keeps every other element; the new size is the
\* sum, over the old elements, of its size for a Vector and of 1 otherwise.
C20_FlattenOneLevel ==
  [][lastop'.op = "flatten" =>
       LET before == VecOf(lastop'.recv)
           after  == store'[ptr'[lastop'.recv]].vec
       IN  /\ after = OneLevel(before, 1)
           /\ Len(after) = Len(OneLevel(before, 1))]_vars

-----------------------------------------------------------------------------
(* Claim on chrString of a Range (SpecChr)                                 *)

\* the chrString of the values of r at the step indices lo .. hi - 1
RECURSIVE ExpandFrom(_, _, _)
ExpandFrom(r, lo, hi) ==
  IF hi <= lo THEN <<>>
  ELSE IF hi = lo + 1
       THEN chr_double(DAdd(r.begin_val, DMul(r.step_val, Fin(lo))))
  ELSE LET mid == (lo + hi) \div 2
       IN  ExpandFrom(r, lo, mid) \o ExpandFrom(r, mid, hi)

\* the chrString of each value an iteration over r produces, in order
Expanded(r) ==
  IF AnyNaN(r) \/ DEq(r.step_val, Zero) THEN <<>>
  ELSE ExpandFrom(r, 0, numValues(r))

\* C6: chrString() of a Range returns the empty string and emits a warning
\* when the range would produce more than MAX_RANGE_STEPS values; a range of
\* at most MAX_RANGE_STEPS values is expanded without a warning into the
\* concatenation of the chrString of each produced value, in order.
C6_ChrStringLimit ==
  pc = "done" =>
    IF numValues(rng1) > MAX_RANGE_STEPS
    THEN stream = <<>> /\ warnings = 1
    ELSE stream = Expanded(rng1) /\ warnings = 0

-----------------------------------------------------------------------------
(* Claims on Value::operator[] (SpecIndex)                                 *)

IsNegative(d) == ~isnan(d) /\ d.n < 0

\* the conversion the index is said to go through: NaN, every negative number
\* and every value beyond the uint32 range give UINT32_MAX
Saturating(d) ==
  IF isnan(d) \/ isinf(d) \/ IsNegative(d) \/ d.n > UINT32_MAX
  THEN UINT32_MAX
  ELSE d.n

Indexed(o) == o.op = "[]" /\ o.y.t = "NUMBER"

\* C11: indexing a Vector with a Number converts the index by a saturating
\* conversion in which NaN, every negative number and every value beyond the
\* uint32 range become UINT32_MAX; an index below the vector's size returns
\* that element and every other index returns Undefined.
C11_VectorIndexSaturates ==
  (Indexed(out) /\ out.x.t = "VECTOR") =>
    LET i == Saturating(out.y.d)
    IN  out.v = IF i < Len(out.x.e) THEN out.x.e[i + 1] ELSE Undef

\* the characters of a UTF-8 string: a character starts at every byte that
\* is not a continuation byte (128..191)
IsLead(c) == c < 128 \/ c > 191
LeadPositions(s) == {i \in 1..Len(s) : IsLead(s[i])}
CharEnd(s, i) ==
  IF \E j \in LeadPositions(s) : j > i
  THEN (CHOOSE j \in LeadPositions(s) :
          j > i /\ \A k \in LeadPositions(s) : k > i => j <= k) - 1
  ELSE Len(s)
NthLead(s, n) ==
  CHOOSE i \in LeadPositions(s) :
    Cardinality({j \in LeadPositions(s) : j < i}) = n
Codepoint(s, n) == SubSeq(s, NthLead(s, n), CharEnd(s, NthLead(s, n)))
CodepointCount(s) == Cardinality(LeadPositions(s))

\* C12: indexing a String with a Number returns the one-character string of
\* the whole codepoint at that codepoint position when the converted index is
\* below the string's codepoint count, and Undefined otherwise.
C12_StringIndexByCodepoint ==
  (Indexed(out) /\ out.x.t = "STRING") =>
    LET i == convert_to_uint32(out.y.d)
    IN  out.v = IF i < CodepointCount(out.x.s)
                THEN Str(Codepoint(out.x.s, i))
                ELSE Undef

\* the second character of "a" "e-acute" "b" is the two bytes of e-acute
C12_Witness ==
  /\ Indexed(out)
  /\ out.x = Str(Bytes_a \o Bytes_eacute \o Bytes_b)
  /\ out.y = Num(Fin(1))
  /\ out.v = Str(Bytes_eacute)

-----------------------------------------------------------------------------
(* Claims on the arithmetic operators (SpecArith)                          *)

IsVec(v) == v.t = "VECTOR"
IsNum(v) == v.t = "NUMBER"
AllNumbers(e) == \A i \in 1..Len(e) : IsNum(e[i])

\* C13: v + w and v - w give a Number for two Numbers; for two Vectors a
\* Vector of length min(len(v), len(w)) whose i-th element is v[i] + w[i]
\* (v[i] - w[i]) by the same rule; every other combination gives Undefined.
C13_PlusMinusElementwise ==
  out.op \in {"+", "-"} =>
    IF IsNum(out.x) /\ IsNum(out.y)
    THEN out.v = Num(IF out.op = "+" THEN DAdd(out.x.d, out.y.d)
                     ELSE DSub(out.x.d, out.y.d))
    ELSE IF IsVec(out.x) /\ IsVec(out.y)
         THEN /\ IsVec(out.v)
              /\ Len(out.v.e) = MinLen(out.x.e, out.y.e)
              /\ \A i \in 1..Len(out.v.e) :
                   out.v.e[i] = Apply(out.op, out.x.e[i], out.y.e[i])
    ELSE out.v = Undef

\* [1, 2] + [a] is the one-element vector [1 + a], a a Number
C13_Witness ==
  /\ out.op = "+"
  /\ out.x = Row12
  /\ IsVec(out.y) /\ Len(out.y.e) = 1 /\ IsNum(out.y.e[1])
  /\ out.v = Vec(<<Num(DAdd(Fin(1), out.y.e[1].d))>>)

\* the sum of the doubles f[1], ..., f[n]
RECURSIVE Sigma(_, _)
Sigma(f, n) == IF n = 0 THEN Zero ELSE DAdd(Sigma(f, n - 1), f[n])

NonEmptyVec(v) == IsVec(v) /\ v.e # <<>>
NumberVector(v) == NonEmptyVec(v) /\ AllNumbers(v.e)

\* C14: Vector * Vector with a Number first in each and equal lengths gives
\* the Number sum of v[i]*w[i]; Undefined when any element of either is no
\* Number, and Undefined when the lengths differ.
C14_DotProduct ==
  ( /\ out.op = "*"
    /\ NonEmptyVec(out.x) /\ IsNum(out.x.e[1])
    /\ NonEmptyVec(out.y) /\ IsNum(out.y.e[1]) ) =>
    IF Len(out.x.e) # Len(out.y.e) THEN out.v = Undef
    ELSE IF ~AllNumbers(out.x.e) \/ ~AllNumbers(out.y.e) THEN out.v = Undef
    ELSE out.v = Num(Sigma([i \in 1..Len(out.x.e) |->
                              DMul(out.x.e[i].d, out.y.e[i].d)],
                           Len(out.x.e)))

C14_Witness ==
  /\ out.op = "*"
  /\ out.x = Row12
  /\ out.y = Vec(<<Num(Fin(2)), Num(Fin(2))>>)
  /\ out.v = Num(Fin(6))

\* a matrix: at least one row, every row a Vector of Numbers, all rows of one
\* width
Matrix(m) ==
  /\ NonEmptyVec(m)
  /\ \A i \in 1..Len(m.e) :
       IsVec(m.e[i]) /\ AllNumbers(m.e[i].e) /\ Len(m.e[i].e) = Len(m.e[1].e)
Rows(m) == Len(m.e)
Width(m) == Len(m.e[1].e)

\* C15: a Number-vector v times a matrix m with len(v) rows gives a Vector of
\* the row width of m whose i-th element is the sum over j of v[j]*m[j][i].
C15_VectorTimesMatrix ==
  ( /\ out.op = "*"
    /\ NumberVector(out.x)
    /\ Matrix(out.y)
    /\ Len(out.x.e) = Rows(out.y) ) =>
    out.v = Vec([i \in 1..Width(out.y) |->
                   Num(Sigma([j \in 1..Rows(out.y) |->
                                DMul(out.x.e[j].d, out.y.e[j].e[i].d)],
                             Rows(out.y)))])

C15_Witness ==
  /\ out.op = "*"
  /\ out.x = Row12
  /\ out.y = PatternMat(2, 2)
  /\ out.v = Vec(<<Num(Fin(3)), Num(Fin(4))>>)

\* C16: a matrix m whose rows are Vectors of Numbers of length len(v), times
\* a Number-vector v, gives a Vector with one Number per row of m, the i-th
\* the sum over j of m[i][j]*v[j].
C16_MatrixTimesVector ==
  ( /\ out.op = "*"
    /\ Matrix(out.x)
    /\ NumberVector(out.y)
    /\ Width(out.x) = Len(out.y.e) ) =>
    out.v = Vec([i \in 1..Rows(out.x) |->
                   Num(Sigma([j \in 1..Width(out.x) |->
                                DMul(out.x.e[i].e[j].d, out.y.e[j].d)],
                             Width(out.x)))])

\* [[1, 2], [1, 1]] * [1, 2] = [5, 3]
C16_Witness ==
  /\ out.op = "*"
  /\ out.x = PatternMat(2, 2)
  /\ out.y = Row12
  /\ out.v = Vec(<<Num(Fin(5)), Num(Fin(3))>>)

\* the operands of a Vector * Vector form fit: the dimensions match, no row is
\* ragged, every entry is a Number
WellFormedProduct(x, y) ==
  IF IsNum(x.e[1]) /\ IsNum(y.e[1])
  THEN AllNumbers(x.e) /\ AllNumbers(y.e) /\ Len(x.e) = Len(y.e)
  ELSE IF IsNum(x.e[1]) /\ IsVec(y.e[1])
       THEN AllNumbers(x.e) /\ Matrix(y) /\ Len(x.e) = Rows(y)
  ELSE IF IsVec(x.e[1]) /\ IsNum(y.e[1])
       THEN Matrix(x) /\ AllNumbers(y.e) /\ Width(x) = Len(y.e)
  ELSE Matrix(x) /\ Matrix(y) /\ Width(x) = Rows(y)

VectorForm(x, y) ==
  /\ NonEmptyVec(x) /\ NonEmptyVec(y)
  /\ IsNum(x.e[1]) \/ IsVec(x.e[1])
  /\ IsNum(y.e[1]) \/ IsVec(y.e[1])

\* C17: in every Vector * Vector form a dimension mismatch, a ragged matrix
\* row or an entry that is no Number makes the whole result Undefined.
C17_DefectGivesUndefined ==
  ( /\ out.op = "*"
    /\ VectorForm(out.x, out.y)
    /\ ~WellFormedProduct(out.x, out.y) ) => out.v = Undef

InTable(op, x, y) ==
  CASE op \in {"+", "-"} -> (IsNum(x) /\ IsNum(y)) \/ (IsVec(x) /\ IsVec(y))
    [] op = "*" -> (IsNum(x) \/ IsVec(x)) /\ (IsNum(y) \/ IsVec(y))
    [] op = "/" -> (IsNum(x) /\ (IsNum(y) \/ IsVec(y))) \/ (IsVec(x) /\ IsNum(y))
    [] op = "%" -> IsNum(x) /\ IsNum(y)
    [] op = "neg" -> IsNum(x) \/ IsVec(x)
    [] OTHER -> x.t \in {"STRING", "VECTOR", "RANGE"} /\ IsNum(y)

\* C18: a+b, a-b, a*b, a/b, a%b, -a and a[b] return a Value for all operands,
\* without a failed assertion and without a read of a Vector out of bounds,
\* and every combination outside the dispatch table returns Undefined.
C18_NoFaultAndUndefinedOutsideTable ==
  out.op # "none" =>
    /\ ~IsFault(out.v)
    /\ ~InTable(out.op, out.x, out.y) => out.v = Undef

\* a matrix times a matrix, where multvecmat runs once per row
C18_Witness ==
  /\ out.op = "*"
  /\ out.x = PatternMat(2, 2)
  /\ out.y \in Rect(2, 2)
  /\ IsVec(out.v) /\ Len(out.v.e) = 2

-----------------------------------------------------------------------------
(* Claims on clone, toString and toStream (SpecText)                       *)

\* C23: for every Value v, v.clone() has the same variant as v and
\* v.clone().toString() == v.toString().
C23_CloneKeepsVariantAndText ==
  out.op = "clone" =>
    /\ vb.t = out.x.t
    /\ out.s = toString(out.x)

C23_Witness ==
  /\ out.op = "clone"
  /\ va.t = "VECTOR"
  /\ Len(va.e) = 2
  /\ vb.t = "VECTOR"
  /\ Len(out.s) > 2

\* the text with the trailing zeroes of its fraction removed, and the
\* decimal point too when nothing remains after it; the exponent suffix, if
\* any, follows the trimmed mantissa
Trimmed(text) ==
  IF \A i \in 1..Len(text) : text[i] # 46 THEN text
  ELSE LET epos     == IF \E i \in 1..Len(text) : text[i] = 101
                       THEN CHOOSE i \in 1..Len(text) :
                              text[i] = 101 /\ \A j \in 1..(i - 1) : text[j] # 101
                       ELSE Len(text) + 1
           mantissa == SubSeq(text, 1, epos - 1)
           suffix   == SubSeq(text, epos, Len(text))
           last     == CHOOSE i \in 1..Len(mantissa) :
                         mantissa[i] # 48 /\ \A j \in (i + 1)..Len(mantissa) :
                                               mantissa[j] = 48
           keep     == IF mantissa[last] = 46 THEN last - 1 ELSE last
       IN  SubSeq(mantissa, 1, keep) \o suffix

\* C24: the text of a Number is "inf", "-inf" or "nan" for the special
\* values, and otherwise its 6-significant-digit conversion with the trailing
\* zeroes of the fraction (and a decimal point left last) removed and the
\* exponent suffix moved to follow the trimmed mantissa; text without a
\* decimal point is unchanged.
C24_NumberText ==
  (out.op = "toString" /\ out.x.t = "NUMBER") =>
    LET d == out.x.d
    IN  out.s = IF isnan(d) THEN <<110, 97, 110>>
                ELSE IF isinf(d) /\ d.n > 0 THEN <<105, 110, 102>>
                ELSE IF isinf(d) THEN <<45, 105, 110, 102>>
                ELSE Trimmed(ToPrecision(d, 6))

\* 1500000000 is converted to "1.50000e+9" and trimmed to "1.5e+9"
C24_Witness ==
  /\ out.op = "toString"
  /\ out.x = Num(Fin(1500000000))
  /\ out.s = <<49, 46, 53, 101, 43, 57>>

\* C27: for every Value, of every variant, at top level and nested in
\* Vectors, the text toStream writes to the stream equals the string
\* toString returns.
C27_StreamEqualsString ==
  out.op = "toStream" => out.s = toString(out.x)

-----------------------------------------------------------------------------
(* Claim on getVec2 and getVec3 (SpecGetVec)                               *)

AcceptedArity(op) == IF op = "getVec3" THEN {3}
                     ELSE IF op = "getVec3 default" THEN {2, 3} ELSE {2}

\* C30: getVec2, getVec3 and getVec3 with a default return true only for a
\* Vector of an accepted arity whose components are all Numbers, and when
\* one returns true every output (x, y and, for getVec3, z) has been
\* assigned from the Vector or the default.
C30_GetVecTrueOnlyForNumberVectors ==
  (out.op \in {"getVec2", "getVec2 finite", "getVec3", "getVec3 default"}
     /\ out.b) =>
    LET v == out.x
    IN  /\ v.t = "VECTOR"
        /\ Len(v.e) \in AcceptedArity(out.op)
        /\ \A i \in 1..Len(v.e) : v.e[i].t = "NUMBER"
        /\ out.xyz.x = v.e[1].d
        /\ out.xyz.y = v.e[2].d
        /\ out.op \in {"getVec3", "getVec3 default"} =>
             out.xyz.z = IF Len(v.e) = 3 THEN v.e[3].d ELSE DefaultVal


-----------------------------------------------------------------------------
(* Claims on sequences with embedded vectors (SpecEmbed)                   *)

WasIndexed == out.op = "vec[]"

\* C26: after any appends of values and embedded vectors, size() of a
\* sequence is the length of its vec plus embed_excess and is the number of
\* elements the iteration from begin() to end() yields, and empty() holds
\* exactly when size() is 0.
C26_SizeIsFlatPlusExcess ==
  Idle =>
    \A o \in ObjIds :
      vobj[o].alloc =>
        /\ size(o) = Len(vobj[o].vec) + vobj[o].embed_excess
        /\ size(o) = Len(Iterate(o))
        /\ empty(o) <=> size(o) = 0

C26_Witness ==
  /\ Idle
  /\ \E h \in SeqHandles :
       /\ vh[h] # 0
       /\ vobj[vh[h]].embed_excess > 0
       /\ Len(vobj[vh[h]].vec) > 1
       /\ size(vh[h]) = MaxElems

\* C22: operator[] with an index inside a sequence whose embed_excess is not
\* zero leaves embed_excess 0 and vec equal to the elements the iteration
\* yielded before the call; on a sequence whose embed_excess is zero it
\* changes neither.
C22_FlattenOnIndex ==
  WasIndexed =>
    LET o == vh[out.h]
        before == out.before
    IN  /\ (before.embed_excess # 0
              /\ out.n < Len(before.vec) + before.embed_excess)
             => /\ vobj[o].embed_excess = 0
                /\ vobj[o].vec = before.iterated
                /\ Iterate(o) = before.iterated
        /\ before.embed_excess = 0
             => /\ vobj[o].embed_excess = 0
                /\ vobj[o].vec = before.vec

C22_Witness ==
  /\ WasIndexed
  /\ out.before.embed_excess > 0
  /\ out.n < Len(out.before.vec) + out.before.embed_excess
  /\ Len(out.before.iterated) = MaxElems
  /\ \E i \in 1..Len(out.before.vec) : IsEmbedded(out.before.vec[i])

\* C21: a sequence built by embedding other sequences, those of a single
\* element included, iterates as the elements appended in order, and once
\* flattened its vec is the sequence a direct append of the same elements
\* builds, for every count from 0 and every order of the appends.
C21_EmbedThenFlattenIsAppend ==
  Idle =>
    \A h \in SeqHandles :
      vh[h] # 0 =>
        /\ Iterate(vh[h]) = logical[h]
        /\ vobj[vh[h]].embed_excess = 0 => vobj[vh[h]].vec = logical[h]

C21_Witness ==
  /\ WasIndexed
  /\ out.before.embed_excess > 0
  /\ vobj[vh[out.h]].embed_excess = 0
  /\ Len(logical[out.h]) = MaxElems
  /\ logical[out.h][1] # logical[out.h][2]
  /\ vobj[vh[out.h]].vec = logical[out.h]

\* C28: the release of a sequence whose embedded vectors form a nested
\* chain runs in one call of the deleter, whatever the length of the
\* chain, and when it has returned every VectorObject of the chain is freed.
C28_ReleaseIsIterative ==
  /\ rel.peak <= 1
  /\ (rel.root # 0 /\ rel.stack = <<>>)
       => \A o \in rel.tree : ~vobj[o].alloc

C28_Witness ==
  /\ rel.root # 0
  /\ rel.stack = <<>>
  /\ Cardinality(rel.tree) >= 3
  /\ \A o \in rel.tree : ~vobj[o].alloc

=============================================================================
